---- MODULE Spec2Model ----
(***************************************************************************)
(* Model of the RSS -> DeepL -> OpenAI -> Slack notifier (continuous mode, *)
(* src/main.go with the novelty poller src/unnamed/part_002, the           *)
(* translator of src/unnamed/part_003 and src/service/notification.go).    *)
(*                                                                         *)
(* Text is a sequence of one-character strings; an identifier, a title, a  *)
(* file's contents and a response body are all text.                       *)
(***************************************************************************)
EXTENDS Integers, Sequences, FiniteSets, TLC

\* ------------------------------------------------------------------------
\* Bounds of the model
\* ------------------------------------------------------------------------

\* longest feed a poll may return
MaxFeedLen == 2

\* polling passes started by the main loop
MaxPasses == 2

\* results handed to sendNotifications when it is checked on its own
MaxResults == 6

\* longest completion given to generateSummaryWithOpenAI when it is checked on
\* its own
MaxSummaryLen == 7

\* retention limit of saveState: 1000 in the source, scaled down
RetentionLimit == 2

\* ------------------------------------------------------------------------
\* strings package, on text
\* ------------------------------------------------------------------------

WS == {" ", "\n", "\t", "\r"}

NL == <<"\n">>

Range(s) == {s[i] : i \in DOMAIN s}

RECURSIVE TrimLeft(_)
TrimLeft(s) == IF Len(s) > 0 /\ s[1] \in WS THEN TrimLeft(Tail(s)) ELSE s

RECURSIVE TrimRight(_)
TrimRight(s) ==
    IF Len(s) > 0 /\ s[Len(s)] \in WS THEN TrimRight(SubSeq(s, 1, Len(s) - 1)) ELSE s

TrimSpace(s) == TrimRight(TrimLeft(s))

\* s[from:] with Go's 0-based offsets
From(s, from) == SubSeq(s, from + 1, Len(s))

\* s[:to] with Go's 0-based offsets
Upto(s, to) == SubSeq(s, 1, to)

HasPrefix(s, p) == Len(p) <= Len(s) /\ SubSeq(s, 1, Len(p)) = p

\* strings.Index: 0-based offset of the first occurrence of p in s, -1 if none
Index(s, p) ==
    IF \E i \in 0..Len(s) : HasPrefix(From(s, i), p)
    THEN CHOOSE i \in 0..Len(s) :
            /\ HasPrefix(From(s, i), p)
            /\ \A j \in 0..(i - 1) : ~HasPrefix(From(s, j), p)
    ELSE -1

\* strings.LastIndex
LastIndex(s, p) ==
    IF \E i \in 0..Len(s) : HasPrefix(From(s, i), p)
    THEN CHOOSE i \in 0..Len(s) :
            /\ HasPrefix(From(s, i), p)
            /\ \A j \in (i + 1)..Len(s) : ~HasPrefix(From(s, j), p)
    ELSE -1

Contains(s, p) == Index(s, p) >= 0

\* strings.Split with a non-empty separator: always at least one piece
RECURSIVE Split(_, _)
Split(s, sep) ==
    LET i == Index(s, sep)
    IN  IF i < 0 THEN <<s>>
        ELSE <<Upto(s, i)>> \o Split(From(s, i + Len(sep)), sep)

RECURSIVE Join(_, _)
Join(parts, sep) ==
    IF Len(parts) = 0 THEN <<>>
    ELSE IF Len(parts) = 1 THEN parts[1]
    ELSE parts[1] \o sep \o Join(Tail(parts), sep)

\* strings.ReplaceAll with a non-empty pattern
RECURSIVE ReplaceAll(_, _, _)
ReplaceAll(s, old, new) ==
    LET i == Index(s, old)
    IN  IF i < 0 THEN s
        ELSE Upto(s, i) \o new \o ReplaceAll(From(s, i + Len(old)), old, new)

\* the trimmed, non-empty elements of a list of lines, in order
RECURSIVE TrimmedNonEmpty(_)
TrimmedNonEmpty(lines) ==
    IF Len(lines) = 0 THEN <<>>
    ELSE LET line == TrimSpace(lines[1])
         IN  (IF line # <<>> THEN <<line>> ELSE <<>>) \o TrimmedNonEmpty(Tail(lines))

\* ------------------------------------------------------------------------
\* cleanText
\* ------------------------------------------------------------------------

RECURSIVE StripTags(_)
StripTags(text) ==
    IF Contains(text, <<"<">>) /\ Contains(text, <<">">>)
    THEN LET start == Index(text, <<"<">>)
             end   == Index(From(text, start), <<">">>)
         IN  IF end = -1 THEN text
             ELSE StripTags(Upto(text, start) \o From(text, start + end + 1))
    ELSE text

cleanText(text) ==
    LET t1 == ReplaceAll(text, <<"<", "b", "r", ">">>, NL)
        t2 == ReplaceAll(t1, <<"<", "b", "r", "/", ">">>, NL)
        t3 == ReplaceAll(t2, <<"<", "b", "r", " ", "/", ">">>, NL)
        t4 == TrimSpace(StripTags(t3))
    IN  Join(TrimmedNonEmpty(Split(t4, NL)), NL)

\* ------------------------------------------------------------------------
\* The feed and the state file (src/unnamed/part_002)
\* ------------------------------------------------------------------------

\* gofeed items the upstream feed may carry: GUID, Link, Title, Description.
\* The second one has no GUID, so its identifier is its link.
Entries ==
    { [GUID |-> <<"a">>, Link |-> <<"p">>, Title |-> <<"<", "i", ">", "x">>,
       Description |-> <<>>],
      [GUID |-> <<>>, Link |-> <<"b">>, Title |-> <<"y">>,
       Description |-> <<"d">>],
      [GUID |-> <<"c">>, Link |-> <<"q">>, Title |-> <<"z">>,
       Description |-> <<>>] }

\* every list of at most n elements of S
SeqsUpTo(S, n) == UNION {[1..k -> S] : k \in 0..n}

Feeds == SeqsUpTo(Entries, MaxFeedLen)

\* the identifier of a feed entry: GUID, or the link when the GUID is empty
ItemID(item) == IF item.GUID = <<>> THEN item.Link ELSE item.GUID

\* the orders in which a range over a Go map may visit the keys S
Orders(S) ==
    {f \in [1..Cardinality(S) -> S] : \A i, j \in DOMAIN f : f[i] = f[j] => i = j}

LastN(s, n) == IF Len(s) > n THEN SubSeq(s, Len(s) - n + 1, Len(s)) ELSE s

\* the elements of s, each once, in order of first occurrence, after seq acc
RECURSIVE AppendNew(_, _)
AppendNew(acc, s) ==
    IF Len(s) = 0 THEN acc
    ELSE AppendNew(IF s[1] \in Range(acc) THEN acc ELSE Append(acc, s[1]), Tail(s))

\* the state file: missing, or present with its contents
NoFile == [exists |-> FALSE, data |-> <<>>]

File(data) == [exists |-> TRUE, data |-> data]

\* loadState that takes the file's identifiers for the seen-set instead of
\* adding them to it
loadState_Replace(m, file, readOK) ==
    IF ~file.exists THEN [m |-> m, err |-> FALSE]
    ELSE IF ~readOK THEN [m |-> m, err |-> TRUE]
    ELSE [m |-> AppendNew(<<>>, TrimmedNonEmpty(Split(file.data, NL))), err |-> FALSE]

\* loadState that starts from an empty seen-set when the file cannot be read
loadState_ClearOnError(m, file, readOK) ==
    IF ~file.exists THEN [m |-> m, err |-> FALSE]
    ELSE IF ~readOK THEN [m |-> <<>>, err |-> TRUE]
    ELSE [m |-> AppendNew(m, TrimmedNonEmpty(Split(file.data, NL))), err |-> FALSE]

\* loadState. m is the seen-set with its identifiers in insertion order.
\* readOK: whether os.ReadFile succeeds on an existing file.
loadState(m, file, readOK) ==
    IF ~file.exists THEN [m |-> m, err |-> FALSE]
    ELSE IF ~readOK THEN [m |-> m, err |-> TRUE]
    ELSE [m |-> AppendNew(m, TrimmedNonEmpty(Split(file.data, NL))), err |-> FALSE]

\* the loop of CheckForNewItems without fs.lastChecked[guid] = true
RECURSIVE CheckItems_NoMark(_, _, _)
CheckItems_NoMark(items, m, new) ==
    IF Len(items) = 0 THEN [m |-> m, newItems |-> new]
    ELSE LET item == items[1]
             guid == ItemID(item)
         IN  IF guid \in Range(m) THEN CheckItems_NoMark(Tail(items), m, new)
             ELSE CheckItems_NoMark(Tail(items), m,
                     Append(new, [Title |-> cleanText(item.Title),
                                  Description |-> cleanText(item.Description),
                                  Link |-> item.Link,
                                  GUID |-> guid]))

\* the loop of CheckForNewItems over feed.Items: the new items, and the
\* seen-set with the new identifiers marked. FeedItem.Published is left out:
\* nothing in the continuous pipeline reads it.
RECURSIVE CheckItems(_, _, _)
CheckItems(items, m, new) ==
    IF Len(items) = 0 THEN [m |-> m, newItems |-> new]
    ELSE LET item == items[1]
             guid == ItemID(item)
         IN  IF guid \in Range(m) THEN CheckItems(Tail(items), m, new)
             ELSE CheckItems(Tail(items), Append(m, guid),
                     Append(new, [Title |-> cleanText(item.Title),
                                  Description |-> cleanText(item.Description),
                                  Link |-> item.Link,
                                  GUID |-> guid]))

\* saveState that returns nil without having written the file
saveState_NoWrite(guids, file, outcome) ==
    IF outcome = "mkdir" THEN [kept |-> Range(guids), file |-> file, err |-> TRUE]
    ELSE LET kept == LastN(guids, RetentionLimit)
         IN  [kept |-> Range(kept), file |-> file, err |-> outcome # "ok"]

\* saveState. guids is the order in which the range over the map visited the
\* keys; outcome is what the file system did: "ok", "mkdir" (MkdirAll failed)
\* or "write" (WriteFile failed, the file is left as it was).
\* Yields the map's keys (kept is a set: the new map), the file and the error.
saveState(guids, file, outcome) ==
    IF outcome = "mkdir" THEN [kept |-> Range(guids), file |-> file, err |-> TRUE]
    ELSE LET kept == LastN(guids, RetentionLimit)
             data == Join(kept, NL)
         IN  [kept |-> Range(kept),
              file |-> IF outcome = "ok" THEN File(data) ELSE file,
              err |-> outcome # "ok"]

SaveOutcomes == {"ok", "mkdir", "write"}

\* the identifiers of s that are in set S, in the order of s
RECURSIVE Restrict(_, _)
Restrict(s, S) ==
    IF Len(s) = 0 THEN <<>>
    ELSE (IF s[1] \in S THEN <<s[1]>> ELSE <<>>) \o Restrict(Tail(s), S)

\* ------------------------------------------------------------------------
\* TranslatorService (src/unnamed/part_003, second file)
\* ------------------------------------------------------------------------

\* what the DeepL endpoint may answer: no answer at all, a non-200 status, a
\* body that is not JSON, or a 200 with a list of translations
DeepLResponses ==
    { [kind |-> "neterr", translations |-> <<>>],
      [kind |-> "status", translations |-> <<>>],
      [kind |-> "badjson", translations |-> <<>>],
      [kind |-> "ok", translations |-> <<>>],
      [kind |-> "ok", translations |-> << <<"j">> >>] }

translateWithDeepL(text, resp) ==
    IF TrimSpace(text) = <<>> THEN [text |-> <<>>, err |-> FALSE]
    ELSE IF resp.kind # "ok" THEN [text |-> <<>>, err |-> TRUE]
    ELSE IF Len(resp.translations) = 0 THEN [text |-> <<>>, err |-> TRUE]
    ELSE [text |-> resp.translations[1], err |-> FALSE]

\* a completion of five lines, with blanks around it
FiveLines == <<" ", "1", "\n", "2", "\n", "3", "\n", "4", "\n", "5", "\n">>

\* what the chat completion call may answer: an error, or a list of choices
OpenAIResponses ==
    { [err |-> TRUE, choices |-> <<>>],
      [err |-> FALSE, choices |-> <<>>],
      [err |-> FALSE, choices |-> << <<"s">> >>],
      [err |-> FALSE, choices |-> <<FiveLines>>] }

\* generateSummaryWithOpenAI that cuts a long summary after its fourth line
generateSummaryWithOpenAI_FourLines(title, description, resp) ==
    IF resp.err THEN [text |-> <<>>, err |-> TRUE]
    ELSE IF Len(resp.choices) = 0 THEN [text |-> <<>>, err |-> TRUE]
    ELSE LET summary == TrimSpace(resp.choices[1])
             lines   == Split(summary, NL)
         IN  [text |-> IF Len(lines) > 3 THEN Join(SubSeq(lines, 1, 4), NL)
                       ELSE summary,
              err |-> FALSE]

generateSummaryWithOpenAI(title, description, resp) ==
    IF resp.err THEN [text |-> <<>>, err |-> TRUE]
    ELSE IF Len(resp.choices) = 0 THEN [text |-> <<>>, err |-> TRUE]
    ELSE LET summary == TrimSpace(resp.choices[1])
             lines   == Split(summary, NL)
         IN  [text |-> IF Len(lines) > 3 THEN Join(SubSeq(lines, 1, 3), NL)
                       ELSE summary,
              err |-> FALSE]

\* the placeholder for a summary that could not be generated
SummaryFailed == <<"n", "o", " ", "s", "u", "m">>

\* TranslateAndSummarize that takes what a failed title translation returned
TranslateAndSummarize_NoTitleFallback(item, rt, rd, rs) ==
    LET t == translateWithDeepL(item.Title, rt)
        translatedTitle == t.text
        d == translateWithDeepL(item.Description, rd)
        translatedDescription == IF d.err THEN item.Description ELSE d.text
        g == generateSummaryWithOpenAI(translatedTitle, translatedDescription, rs)
        summary == IF g.err THEN SummaryFailed ELSE g.text
    IN  [result |-> [OriginalTitle |-> item.Title,
                     TranslatedTitle |-> translatedTitle,
                     OriginalDescription |-> item.Description,
                     TranslatedDescription |-> translatedDescription,
                     Summary |-> summary,
                     Link |-> item.Link],
         err |-> FALSE,
         calls |-> [title |-> t, description |-> d, summary |-> g]]

\* TranslateAndSummarize that returns the error of the summary generation
TranslateAndSummarize_SummaryErr(item, rt, rd, rs) ==
    LET t == translateWithDeepL(item.Title, rt)
        translatedTitle == IF t.err THEN item.Title ELSE t.text
        d == translateWithDeepL(item.Description, rd)
        translatedDescription == IF d.err THEN item.Description ELSE d.text
        g == generateSummaryWithOpenAI(translatedTitle, translatedDescription, rs)
        summary == IF g.err THEN SummaryFailed ELSE g.text
    IN  [result |-> [OriginalTitle |-> item.Title,
                     TranslatedTitle |-> translatedTitle,
                     OriginalDescription |-> item.Description,
                     TranslatedDescription |-> translatedDescription,
                     Summary |-> summary,
                     Link |-> item.Link],
         err |-> g.err,
         calls |-> [title |-> t, description |-> d, summary |-> g]]

\* TranslateAndSummarize that, when the summary fails, starts over from the
\* original texts with the placeholder
TranslateAndSummarize_ResetOnSummaryErr(item, rt, rd, rs) ==
    LET t == translateWithDeepL(item.Title, rt)
        translatedTitle == IF t.err THEN item.Title ELSE t.text
        d == translateWithDeepL(item.Description, rd)
        translatedDescription == IF d.err THEN item.Description ELSE d.text
        g == generateSummaryWithOpenAI(translatedTitle, translatedDescription, rs)
        summary == IF g.err THEN SummaryFailed ELSE g.text
    IN  [result |-> [OriginalTitle |-> item.Title,
                     TranslatedTitle |-> IF g.err THEN item.Title ELSE translatedTitle,
                     OriginalDescription |-> item.Description,
                     TranslatedDescription |-> IF g.err THEN item.Description
                                               ELSE translatedDescription,
                     Summary |-> summary,
                     Link |-> item.Link],
         err |-> FALSE,
         calls |-> [title |-> t, description |-> d, summary |-> g]]

\* TranslateAndSummarize. rt, rd, rs: the answers to the title translation,
\* the description translation and the summary request. result and err are
\* what the function returns, calls what its three calls returned to it.
TranslateAndSummarize(item, rt, rd, rs) ==
    LET t == translateWithDeepL(item.Title, rt)
        translatedTitle == IF t.err THEN item.Title ELSE t.text
        d == translateWithDeepL(item.Description, rd)
        translatedDescription == IF d.err THEN item.Description ELSE d.text
        g == generateSummaryWithOpenAI(translatedTitle, translatedDescription, rs)
        summary == IF g.err THEN SummaryFailed ELSE g.text
    IN  [result |-> [OriginalTitle |-> item.Title,
                     TranslatedTitle |-> translatedTitle,
                     OriginalDescription |-> item.Description,
                     TranslatedDescription |-> translatedDescription,
                     Summary |-> summary,
                     Link |-> item.Link],
         err |-> FALSE,
         calls |-> [title |-> t, description |-> d, summary |-> g]]

\* ------------------------------------------------------------------------
\* NotificationService (src/service/notification.go)
\* ------------------------------------------------------------------------

Digits == <<"0", "1", "2", "3", "4", "5", "6", "7", "8", "9">>

\* a number in decimal (%d)
RECURSIVE Itoa(_)
Itoa(n) == IF n < 10 THEN <<Digits[n + 1]>> ELSE Itoa(n \div 10) \o <<Digits[(n % 10) + 1]>>

Ellipsis == <<".", ".", ".">>

\* truncateText that also cuts at a space that lies at index maxLen/2
truncateText_AtHalf(text, maxLen) ==
    IF Len(text) <= maxLen THEN text
    ELSE LET truncated == Upto(text, maxLen)
             lastSpace == LastIndex(truncated, <<" ">>)
         IN  (IF lastSpace >= maxLen \div 2 THEN Upto(truncated, lastSpace)
              ELSE truncated) \o Ellipsis

\* Lengths and offsets are counted in bytes, as len and slices are in Go: an
\* element of a text stands for one byte.
truncateText(text, maxLen) ==
    IF Len(text) <= maxLen THEN text
    ELSE LET truncated == Upto(text, maxLen)
             lastSpace == LastIndex(truncated, <<" ">>)
         IN  (IF lastSpace > maxLen \div 2 THEN Upto(truncated, lastSpace)
              ELSE truncated) \o Ellipsis

\* the fixed texts of the messages, shortened
NewArticleText == <<"n", "e", "w">>

SummaryLabel == <<"s", "u", "m">>

NoSummary == <<"n", "o", "n", "e">>

BatchSeparator == <<"\n", "-", "-", "-">>

Attachment(color, title, link, text, fields) ==
    [Color |-> color, Title |-> title, TitleLink |-> link, Text |-> text,
     Fields |-> fields]

\* a SlackMessage; kind names the function that built it
Message(kind, icon, text, attachments) ==
    [kind |-> kind, IconEmoji |-> icon, Text |-> text,
     Attachments |-> attachments, ThreadTS |-> <<>>]

buildArticleMessage(result) ==
    LET description == IF Len(result.TranslatedDescription) > 500
                       THEN Upto(result.TranslatedDescription, 500) \o Ellipsis
                       ELSE result.TranslatedDescription
        summary == IF result.Summary = <<>> THEN NoSummary ELSE result.Summary
    IN  Message("article", ":newspaper:", NewArticleText,
            << Attachment("#36a64f", result.TranslatedTitle, result.Link,
                   SummaryLabel \o NL \o summary,
                   << [Title |-> "original", Value |-> result.OriginalTitle],
                      [Title |-> "detail", Value |-> truncateText(description, 300)] >>) >>)

buildTitleMessage(result) ==
    Message("title", ":newspaper:", NewArticleText,
        << Attachment("#36a64f", result.TranslatedTitle, result.Link, <<>>,
               << [Title |-> "original", Value |-> result.OriginalTitle] >>) >>)

buildSummaryMessage(result) ==
    LET description == IF Len(result.TranslatedDescription) > 800
                       THEN Upto(result.TranslatedDescription, 800) \o Ellipsis
                       ELSE result.TranslatedDescription
        summary == IF result.Summary = <<>> THEN NoSummary ELSE result.Summary
    IN  Message("summary", ":memo:", SummaryLabel \o NL \o summary,
            << Attachment("#2196F3", <<"d", "e", "t", "a", "i", "l">>, <<>>,
                   truncateText(description, 600),
                   << [Title |-> "link", Value |-> <<"<">> \o result.Link \o <<"|", ">">>] >>) >>)

\* the attachments of a batch message that shows every result
BatchAttachments_NoCap(results) ==
    << Attachment("#36a64f", <<"#">> \o Itoa(Len(results)), <<>>, <<>>, <<>>) >>
    \o [i \in 1..Len(results) |->
           Attachment("#2196F3", results[i].TranslatedTitle, results[i].Link,
               results[i].Summary \o (IF i - 1 < Len(results) - 1 THEN BatchSeparator
                                       ELSE <<>>),
               << [Title |-> "original", Value |-> results[i].OriginalTitle] >>)]

\* the attachments SendBatchNotification builds: the header, which carries the
\* number of results, then one attachment per article of the first five
BatchAttachments(results) ==
    LET maxArticles == 5
        shown == IF Len(results) > maxArticles THEN SubSeq(results, 1, maxArticles)
                 ELSE results
    IN  << Attachment("#36a64f", <<"#">> \o Itoa(Len(results)), <<>>, <<>>, <<>>) >>
        \o [i \in 1..Len(shown) |->
               Attachment("#2196F3", shown[i].TranslatedTitle, shown[i].Link,
                   shown[i].Summary \o (IF i - 1 < Len(shown) - 1 THEN BatchSeparator
                                        ELSE <<>>),
                   << [Title |-> "original", Value |-> shown[i].OriginalTitle] >>)]

buildBatchMessage(results) ==
    Message("batch", ":newspaper:", <<>>, BatchAttachments(results))

errorMessage(errorMsg) ==
    Message("error", ":warning:", <<>>,
        << Attachment("danger", <<"e", "r", "r", "o", "r">>, <<>>, errorMsg, <<>>) >>)

startupMessage ==
    Message("startup", ":rocket:", <<>>,
        << Attachment("good", <<"s", "t", "a", "r", "t">>, <<>>, <<>>, <<>>) >>)

testMessage == Message("test", ":white_check_mark:", <<"t", "e", "s", "t">>, <<>>)

\* what the webhook may answer: no answer at all, or a status and a body
SlackResponses ==
    { [kind |-> "neterr", status |-> 0, body |-> <<>>],
      [kind |-> "http", status |-> 500, body |-> <<"e">>],
      [kind |-> "http", status |-> 200, body |-> <<"n", "o">>],
      [kind |-> "http", status |-> 200, body |-> <<"o", "k", "\n">>],
      [kind |-> "http", status |-> 200, body |-> <<"o", "k">>] }

\* sendToSlack: TRUE when it returns an error
sendToSlack(resp) ==
    \/ resp.kind = "neterr"
    \/ resp.status # 200
    \/ TrimSpace(resp.body) # <<"o", "k">>

\* sendToSlackWithResponse: the timestamp made up from the local clock, and
\* the error
sendToSlackWithResponse(resp, now) ==
    IF resp.kind = "neterr" \/ resp.status # 200 THEN [ts |-> <<>>, err |-> TRUE]
    ELSE IF TrimSpace(resp.body) # <<"o", "k">> THEN [ts |-> <<>>, err |-> TRUE]
    ELSE [ts |-> Itoa(now), err |-> FALSE]

\* one entry of the record of what a pass did to the channel: a message handed
\* to the webhook for the article-th result (0: no article) and whether the
\* send succeeded, or a pacing delay of secs seconds
Sent(msg, ok, article) ==
    [op |-> "send", msg |-> msg, ok |-> ok, article |-> article, secs |-> 0]

Slept(secs) ==
    [op |-> "sleep", msg |-> Message("none", "", <<>>, <<>>), ok |-> TRUE,
     article |-> 0, secs |-> secs]

\* SendNewArticleNotification for the article-th result: what it did, its error
SendNewArticleNotification(result, article, resp) ==
    LET err == sendToSlack(resp)
    IN  [events |-> <<Sent(buildArticleMessage(result), ~err, article)>>, err |-> err]

\* SendNewArticleNotificationWithThread that sends the reply whatever the title
\* send returned
SendNewArticleNotificationWithThread_ReplyAnyway(result, article, r1, r2, now) ==
    LET titleMessage == buildTitleMessage(result)
        t == sendToSlackWithResponse(r1, now)
        summaryMessage == [buildSummaryMessage(result) EXCEPT !.ThreadTS = t.ts]
        err2 == sendToSlack(r2)
    IN  [events |-> <<Sent(titleMessage, ~t.err, article),
                      Sent(summaryMessage, ~err2, article)>>,
         err |-> t.err \/ err2]

\* SendNewArticleNotificationWithThread that returns nil when the reply failed
SendNewArticleNotificationWithThread_ReplyErrorDropped(result, article, r1, r2, now) ==
    LET titleMessage == buildTitleMessage(result)
        t == sendToSlackWithResponse(r1, now)
        summaryMessage == [buildSummaryMessage(result) EXCEPT !.ThreadTS = t.ts]
        err2 == sendToSlack(r2)
    IN  IF t.err THEN [events |-> <<Sent(titleMessage, FALSE, article)>>, err |-> TRUE]
        ELSE [events |-> <<Sent(titleMessage, TRUE, article),
                           Sent(summaryMessage, ~err2, article)>>,
              err |-> FALSE]

\* SendNewArticleNotificationWithThread. r1 answers the title message, r2 the
\* reply; now is the local clock at the title send.
SendNewArticleNotificationWithThread(result, article, r1, r2, now) ==
    LET titleMessage == buildTitleMessage(result)
        t == sendToSlackWithResponse(r1, now)
        summaryMessage == [buildSummaryMessage(result) EXCEPT !.ThreadTS = t.ts]
        err2 == sendToSlack(r2)
    IN  IF t.err THEN [events |-> <<Sent(titleMessage, FALSE, article)>>, err |-> TRUE]
        ELSE [events |-> <<Sent(titleMessage, TRUE, article),
                           Sent(summaryMessage, ~err2, article)>>,
              err |-> err2]

SendErrorNotification(errorMsg, resp) ==
    LET err == sendToSlack(resp)
    IN  [events |-> <<Sent(errorMessage(errorMsg), ~err, 0)>>, err |-> err]

SendBatchNotification(results, resp) ==
    IF Len(results) = 0 THEN [events |-> <<>>, err |-> FALSE]
    ELSE LET err == sendToSlack(resp)
         IN  [events |-> <<Sent(buildBatchMessage(results), ~err, 0)>>, err |-> err]

\* sendNotifications for one result that falls back to the flat send only when
\* the title message failed
sendOne_TitleOnly(result, threads, r1, r2, r3, now) ==
    IF threads
    THEN LET w == SendNewArticleNotificationWithThread(result, 1, r1, r2, now)
         IN  IF w.err /\ Len(w.events) = 1
             THEN w.events \o SendNewArticleNotification(result, 1, r3).events
             ELSE w.events
    ELSE SendNewArticleNotification(result, 1, r1).events

\* sendNotifications, one result: threaded with the flat send as fallback, or flat
sendOne(result, threads, r1, r2, r3, now) ==
    IF threads
    THEN LET w == SendNewArticleNotificationWithThread(result, 1, r1, r2, now)
         IN  IF w.err THEN w.events \o SendNewArticleNotification(result, 1, r3).events
             ELSE w.events
    ELSE SendNewArticleNotification(result, 1, r1).events

\* the turn of the loop after a failed batch send that makes the flat send a
\* second time when it failed
sendFallback_RetryFlat(result, i, threads, r1, r2, r3, now) ==
    LET flat == SendNewArticleNotification(result, i, r3)
        again2 == IF flat.err THEN flat.events \o flat.events ELSE flat.events
    IN  IF threads
        THEN LET w == SendNewArticleNotificationWithThread(result, i, r1, r2, now)
             IN  (IF w.err THEN w.events \o again2 ELSE w.events) \o <<Slept(2)>>
        ELSE (LET f == SendNewArticleNotification(result, i, r1)
              IN  IF f.err THEN f.events \o f.events ELSE f.events) \o <<Slept(1)>>

\* sendNotifications, one turn of the loop that follows a failed batch send
sendFallback(result, i, threads, r1, r2, r3, now) ==
    IF threads
    THEN LET w == SendNewArticleNotificationWithThread(result, i, r1, r2, now)
         IN  (IF w.err THEN w.events \o SendNewArticleNotification(result, i, r3).events
              ELSE w.events) \o <<Slept(2)>>
    ELSE SendNewArticleNotification(result, i, r1).events \o <<Slept(1)>>

\* ------------------------------------------------------------------------
\* The application (src/main.go)
\* ------------------------------------------------------------------------

VARIABLES
    pc,           \* where the main goroutine is
    sigpc,        \* where the goroutine of handleSignals is
    running,      \* App.running
    ctxDone,      \* the context of Run has been cancelled
    useThreads,   \* Config.SlackUseThreads
    passes,       \* calls of checkAndProcess so far
    lastChecked,  \* FeedService.lastChecked: the keys of the map
    stateFile,    \* the file last_checked_state.txt
    feed,         \* what ParseURL returned to the last CheckForNewItems
    newItems,     \* checkAndProcess: newItems
    results,      \* checkAndProcess: results
    idx,          \* index of the next element in the loop being run
    sent,         \* what the current pass has done to the channel, in order
    inserted,     \* history: the keys of lastChecked in the order they were marked
    atSave,       \* history: the identifiers, in that order, when saveState last ran
    ioOK,         \* history: loadState and saveState of the last poll returned nil
    again,        \* history: the last poll got the feed of the poll before it, and
                  \*   loadState and saveState returned nil in both
    prevFit,      \* history: saveState of the poll before the last dropped nothing
    returned,     \* history: identifiers CheckForNewItems has returned as new
    failed,       \* history: identifiers of the items of earlier passes whose flat
                  \*   send, the last tier, returned an error
    stages,       \* history: what translateWithDeepL (twice) and
                  \*   generateSummaryWithOpenAI returned to the last TranslateAndSummarize
    call,         \* the function applied on its own, with argument and value
    tested,       \* history: what each connection test of TestConnections returned
    ticker        \* the ticker of Run: "none" before time.NewTicker, then "idle",
                  \*   or "pending" when a tick waits in ticker.C

vars == <<pc, sigpc, running, ctxDone, useThreads, passes, lastChecked, stateFile,
          feed, newItems, results, idx, sent, inserted, atSave, ioOK, again,
          prevFit, returned, failed, stages, call, tested,
          ticker>>

feedVars == <<lastChecked, stateFile, feed, inserted, atSave, ioOK, again, prevFit,
              returned, failed>>

sigVars == <<sigpc, running, ctxDone>>

NoFeed == [status |-> "none", Items |-> <<>>]

FeedError == [status |-> "error", Items |-> <<>>]

Parsed(items) == [status |-> "ok", Items |-> items]

NoStage == [text |-> <<>>, err |-> FALSE]

NoStages == [title |-> NoStage, description |-> NoStage, summary |-> NoStage]

NoCall == [fn |-> "none", arg |-> <<>>, val |-> <<>>]

\* no connection test has run yet
NotTested == [deepl |-> "none", openai |-> "none", slack |-> "none"]

\* the three connection tests returned nil
AllPassed == [deepl |-> "ok", openai |-> "ok", slack |-> "ok"]

\* the state files an earlier run of the program may have left behind
SavedFiles ==
    {NoFile} \cup
    {File(Join(o, NL)) :
        o \in UNION {Orders(S) : S \in {T \in SUBSET {ItemID(e) : e \in Entries} :
                                          Cardinality(T) <= RetentionLimit}}}

\* the state of a process that has not polled yet
Fresh ==
    /\ running = TRUE
    /\ ctxDone = FALSE
    /\ lastChecked = {}
    /\ feed = NoFeed
    /\ newItems = <<>>
    /\ idx = 0
    /\ sent = <<>>
    /\ inserted = <<>>
    /\ atSave = <<>>
    /\ ioOK = FALSE
    /\ again = FALSE
    /\ prevFit = FALSE
    /\ returned = {}
    /\ failed = {}
    /\ stages = NoStages
    /\ call = NoCall
    /\ ticker = "none"

\* --- startup ---------------------------------------------------------------

Hello == <<"H", "i">>

translateWithDeepLFormData(text, resp) ==
    IF TrimSpace(text) = <<>> THEN [text |-> <<>>, err |-> FALSE]
    ELSE IF resp.kind # "ok" THEN [text |-> <<>>, err |-> TRUE]
    ELSE IF Len(resp.translations) = 0 THEN [text |-> <<>>, err |-> TRUE]
    ELSE [text |-> resp.translations[1], err |-> FALSE]

\* TRUE when the test returns an error
TestDeepLConnection(rj, rf) ==
    translateWithDeepL(Hello, rj).err /\ translateWithDeepLFormData(Hello, rf).err

TestOpenAIConnection(ro) == ro.err

\* what TestConnections leaves of its three tests, which return the errors e1,
\* e2 and e3: it returns at the first error, and the tests after it do not run
Outcomes(e1, e2, e3) ==
    [deepl  |-> IF e1 THEN "err" ELSE "ok",
     openai |-> IF e1 THEN "none" ELSE IF e2 THEN "err" ELSE "ok",
     slack  |-> IF e1 \/ e2 THEN "none" ELSE IF e3 THEN "err" ELSE "ok"]

\* TestConnections that does not return the error of TestSlackConnection
TestConnections_IgnoreSlack(deepl, openai, slack) ==
    /\ pc = "test"
    /\ \E rj, rf \in deepl, ro \in openai, rs \in slack :
          LET e1 == TestDeepLConnection(rj, rf)
              e2 == TestOpenAIConnection(ro)
              e3 == sendToSlack(rs)
          IN  /\ pc' = IF e1 \/ e2 THEN "fatal" ELSE "startup"
              /\ sent' = IF ~e1 /\ ~e2 THEN <<Sent(testMessage, ~e3, 0)>> ELSE <<>>
              /\ tested' = Outcomes(e1, e2, e3)
    /\ UNCHANGED <<useThreads, passes, newItems, results, idx, stages, call, ticker>>
    /\ UNCHANGED feedVars
    /\ UNCHANGED sigVars

\* main: TestConnections, fatal when a test fails
TestConnections(deepl, openai, slack) ==
    /\ pc = "test"
    /\ \E rj, rf \in deepl, ro \in openai, rs \in slack :
          LET e1 == TestDeepLConnection(rj, rf)
              e2 == TestOpenAIConnection(ro)
              e3 == sendToSlack(rs)
          IN  /\ pc' = IF e1 \/ e2 \/ e3 THEN "fatal" ELSE "startup"
              /\ sent' = IF ~e1 /\ ~e2 THEN <<Sent(testMessage, ~e3, 0)>> ELSE <<>>
              /\ tested' = Outcomes(e1, e2, e3)
    /\ UNCHANGED <<useThreads, passes, newItems, results, idx, stages, call, ticker>>
    /\ UNCHANGED feedVars
    /\ UNCHANGED sigVars

\* main: the startup notification, whose failure is only logged; the goroutine
\* of handleSignals is started and Run is called
SendStartupNotification(slack) ==
    /\ pc = "startup"
    /\ \E r \in slack :
          sent' = Append(sent, Sent(startupMessage, ~sendToSlack(r), 0))
    /\ sigpc' = "wait"
    /\ pc' = "run"
    /\ UNCHANGED <<running, ctxDone, useThreads, passes, newItems, results, idx, stages,
                   call, tested, ticker>>
    /\ UNCHANGED feedVars

\* Run: the call of checkAndProcess made before the loop, whatever the flag
\* and the context are
RunFirstPass ==
    /\ pc = "run"
    /\ pc' = "check"
    /\ passes' = 1
    /\ UNCHANGED <<useThreads, newItems, results, idx, sent, stages, call, tested, ticker>>
    /\ UNCHANGED feedVars
    /\ UNCHANGED sigVars

\* --- checkAndProcess ---------------------------------------------------------
\* The actions take the answers the outside world may give (the feeds the
\* server may serve, what the file system may do, the responses of DeepL,
\* OpenAI and the Slack webhook); a specification fixes them.

FeedFailedText == <<"f", "e", "e", "d">>

ItemFailedText == <<"i", "t", "e", "m", ":">>

\* the identifiers of the items of the pass for which SendNewArticleNotification,
\* the last tier of sendNotifications, returned an error (the k-th result is
\* that of the k-th item: TranslateAndSummarize returns no error)
FailedIDs ==
    {newItems[i].GUID :
        i \in {j \in DOMAIN newItems :
                  \E k \in DOMAIN sent :
                     /\ sent[k].op = "send"
                     /\ sent[k].msg.kind = "article"
                     /\ sent[k].article = j
                     /\ ~sent[k].ok}}

\* CheckForNewItems that forgets the seen-set when ParseURL fails
ParseFailed_ForgetsSeen(slack) ==
    /\ pc = "check"
    /\ \E re \in slack : sent' = SendErrorNotification(FeedFailedText, re).events
    /\ feed' = FeedError
    /\ newItems' = <<>>
    /\ results' = <<>>
    /\ idx' = 1
    /\ stages' = NoStages
    /\ ioOK' = FALSE
    /\ again' = FALSE
    /\ prevFit' = FALSE
    /\ pc' = "select"
    /\ lastChecked' = {}
    /\ inserted' = <<>>
    /\ UNCHANGED <<stateFile, atSave, returned>>
    /\ failed' = failed \cup FailedIDs
    /\ UNCHANGED <<useThreads, passes, call, tested, ticker>>
    /\ UNCHANGED sigVars

\* checkAndProcess that only logs the error CheckForNewItems returns
ParseFailed_Silent(slack) ==
    /\ pc = "check"
    /\ sent' = <<>>
    /\ feed' = FeedError
    /\ newItems' = <<>>
    /\ results' = <<>>
    /\ idx' = 1
    /\ stages' = NoStages
    /\ ioOK' = FALSE
    /\ again' = FALSE
    /\ prevFit' = FALSE
    /\ pc' = "select"
    /\ UNCHANGED <<lastChecked, stateFile, inserted, atSave, returned>>
    /\ failed' = failed \cup FailedIDs
    /\ UNCHANGED <<useThreads, passes, call, tested, ticker>>
    /\ UNCHANGED sigVars

\* checkAndProcess when ParseURL fails: CheckForNewItems returns the error, the
\* error notification is attempted and the pass is over
ParseFailed(slack) ==
    /\ pc = "check"
    /\ \E re \in slack : sent' = SendErrorNotification(FeedFailedText, re).events
    /\ feed' = FeedError
    /\ newItems' = <<>>
    /\ results' = <<>>
    /\ idx' = 1
    /\ stages' = NoStages
    /\ ioOK' = FALSE
    /\ again' = FALSE
    /\ prevFit' = FALSE
    /\ pc' = "select"
    /\ UNCHANGED <<lastChecked, stateFile, inserted, atSave, returned>>
    /\ failed' = failed \cup FailedIDs
    /\ UNCHANGED <<useThreads, passes, call, tested, ticker>>
    /\ UNCHANGED sigVars

\* checkAndProcess up to its loop when ParseURL succeeds: CheckForNewItems with
\* loadState, the loop over the items and saveState
CheckForNewItems(feeds, reads, saves) ==
    /\ pc = "check"
    /\ \E items \in feeds, readOK \in reads, outcome \in saves :
          LET loaded  == loadState(inserted, stateFile, readOK)
              checked == CheckItems(items, loaded.m, <<>>)
          IN  \E guids \in Orders(Range(checked.m)) :
                 LET saved == saveState(guids, stateFile, outcome)
                 IN  /\ feed' = Parsed(items)
                     /\ lastChecked' = saved.kept
                     /\ stateFile' = saved.file
                     /\ inserted' = Restrict(checked.m, saved.kept)
                     /\ atSave' = checked.m
                     /\ newItems' = checked.newItems
                     /\ returned' = returned \cup
                           {checked.newItems[i].GUID : i \in DOMAIN checked.newItems}
                     /\ failed' = failed \cup FailedIDs
                     /\ ioOK' = (~loaded.err /\ ~saved.err)
                     /\ again' = /\ feed = Parsed(items)
                                 /\ ioOK
                                 /\ ~loaded.err /\ ~saved.err
                     /\ prevFit' = (Len(atSave) <= RetentionLimit)
                     /\ pc' = IF Len(checked.newItems) = 0 THEN "select" ELSE "process"
    /\ sent' = <<>>
    /\ results' = <<>>
    /\ idx' = 1
    /\ stages' = NoStages
    /\ UNCHANGED <<useThreads, passes, call, tested, ticker>>
    /\ UNCHANGED sigVars

\* checkAndProcess, one turn of the loop over newItems: TranslateAndSummarize,
\* and after the last item the decision to notify
ProcessItem(deepl, openai, slack) ==
    /\ pc = "process"
    /\ \E rt, rd \in deepl, rs \in openai :
          LET item == newItems[idx]
              out  == TranslateAndSummarize(item, rt, rd, rs)
              res  == IF out.err THEN results ELSE Append(results, out.result)
          IN  /\ results' = res
              /\ stages' = out.calls
              /\ IF out.err
                 THEN \E re \in slack :
                         sent' = sent \o SendErrorNotification(
                                            ItemFailedText \o item.Title, re).events
                 ELSE sent' = sent
              /\ pc' = IF idx < Len(newItems) THEN "process"
                       ELSE IF Len(res) > 0 THEN "notify" ELSE "select"
    /\ idx' = idx + 1
    /\ UNCHANGED <<useThreads, passes, newItems, call, tested, ticker>>
    /\ UNCHANGED feedVars
    /\ UNCHANGED sigVars

\* --- sendNotifications -------------------------------------------------------

\* one result
SendSingle(slack) ==
    /\ pc = "notify"
    /\ Len(results) = 1
    /\ \E r1, r2, r3 \in slack :
          sent' = sent \o sendOne(results[1], useThreads, r1, r2, r3, Len(sent) + 1)
    /\ pc' = "select"
    /\ UNCHANGED <<useThreads, passes, newItems, results, idx, stages, call, tested, ticker>>
    /\ UNCHANGED feedVars
    /\ UNCHANGED sigVars

\* sendNotifications that, after a batch message that went through, sends one
\* by one the results the batch message does not show
SendBatch_OverflowIndividually(slack) ==
    /\ pc = "notify"
    /\ Len(results) # 1
    /\ \E r \in slack :
          LET b == SendBatchNotification(results, r)
          IN  /\ sent' = sent \o b.events
              /\ pc' = IF b.err \/ Len(results) > 5 THEN "fallback" ELSE "select"
              /\ idx' = IF b.err THEN 1 ELSE 6
    /\ UNCHANGED <<useThreads, passes, newItems, results, stages, call, tested, ticker>>
    /\ UNCHANGED feedVars
    /\ UNCHANGED sigVars

\* several results: the batch message; the individual sends follow when it fails
SendBatch(slack) ==
    /\ pc = "notify"
    /\ Len(results) # 1
    /\ \E r \in slack :
          LET b == SendBatchNotification(results, r)
          IN  /\ sent' = sent \o b.events
              /\ pc' = IF b.err THEN "fallback" ELSE "select"
    /\ idx' = 1
    /\ UNCHANGED <<useThreads, passes, newItems, results, stages, call, tested, ticker>>
    /\ UNCHANGED feedVars
    /\ UNCHANGED sigVars

\* the loop after a failed batch send, over the results the batch message shows
SendFallback_FirstFive(slack) ==
    /\ pc = "fallback"
    /\ \E r1, r2, r3 \in slack :
          sent' = sent \o sendFallback(results[idx], idx, useThreads, r1, r2, r3,
                                       Len(sent) + 1)
    /\ idx' = idx + 1
    /\ pc' = IF idx < Len(results) /\ idx < 5 THEN "fallback" ELSE "select"
    /\ UNCHANGED <<useThreads, passes, newItems, results, stages, call, tested, ticker>>
    /\ UNCHANGED feedVars
    /\ UNCHANGED sigVars

\* one turn of the loop over the results after a failed batch send
SendFallback(slack) ==
    /\ pc = "fallback"
    /\ \E r1, r2, r3 \in slack :
          sent' = sent \o sendFallback(results[idx], idx, useThreads, r1, r2, r3,
                                       Len(sent) + 1)
    /\ idx' = idx + 1
    /\ pc' = IF idx < Len(results) THEN "fallback" ELSE "select"
    /\ UNCHANGED <<useThreads, passes, newItems, results, stages, call, tested, ticker>>
    /\ UNCHANGED feedVars
    /\ UNCHANGED sigVars

\* --- Run and handleSignals -----------------------------------------------------

\* a ticker whose tick, when it fires during a pass, starts a pass of its own
TimerFires_StartsPass ==
    /\ pc \in {"check", "process", "notify", "fallback"}
    /\ ticker = "idle"
    /\ passes <= MaxPasses
    /\ pc' = "check"
    /\ passes' = passes + 1
    /\ UNCHANGED <<useThreads, newItems, results, idx, sent, stages, call, tested,
                   ticker>>
    /\ UNCHANGED feedVars
    /\ UNCHANGED sigVars

\* the ticker fires while the main goroutine is in a pass: the tick waits in
\* ticker.C, which holds one tick; a tick that finds one waiting is dropped
TimerFires ==
    /\ pc \in {"check", "process", "notify", "fallback"}
    /\ ticker = "idle"
    /\ ticker' = "pending"
    /\ UNCHANGED <<pc, useThreads, passes, newItems, results, idx, sent, stages, call,
                   tested>>
    /\ UNCHANGED feedVars
    /\ UNCHANGED sigVars

\* Run that starts a pass at every tick
Tick_IgnoreFlag ==
    /\ pc = "select"
    /\ passes < MaxPasses
    /\ ticker' = "idle"
    /\ pc' = "check"
    /\ passes' = passes + 1
    /\ UNCHANGED <<useThreads, newItems, results, idx, sent, stages, call, tested>>
    /\ UNCHANGED feedVars
    /\ UNCHANGED sigVars

\* Run: the select takes a tick from ticker.C, one that waited there or one
\* that fires while the select waits (the ticker is made just before the first
\* select); a pass starts when the flag is still set
Tick ==
    /\ pc = "select"
    /\ passes < MaxPasses
    /\ ticker' = "idle"
    /\ IF running THEN pc' = "check" /\ passes' = passes + 1
       ELSE UNCHANGED <<pc, passes>>
    /\ UNCHANGED <<useThreads, newItems, results, idx, sent, stages, call, tested>>
    /\ UNCHANGED feedVars
    /\ UNCHANGED sigVars

\* Run: the select takes ctx.Done() and Run returns
RunCancelled ==
    /\ pc = "select"
    /\ ctxDone
    /\ pc' = "exit"
    /\ UNCHANGED <<useThreads, passes, newItems, results, idx, sent, stages, call, tested, ticker>>
    /\ UNCHANGED feedVars
    /\ UNCHANGED sigVars

\* handleSignals: a signal is received from sigChan
SignalReceived ==
    /\ sigpc = "wait"
    /\ sigpc' = "got"
    /\ UNCHANGED <<pc, running, ctxDone, useThreads, passes, newItems, results, idx,
                   sent, stages, call, tested, ticker>>
    /\ UNCHANGED feedVars

\* handleSignals: setRunning(false)
SetRunningFalse ==
    /\ sigpc = "got"
    /\ running' = FALSE
    /\ sigpc' = "set"
    /\ UNCHANGED <<pc, ctxDone, useThreads, passes, newItems, results, idx, sent,
                   stages, call, tested, ticker>>
    /\ UNCHANGED feedVars

\* handleSignals that returns without calling cancel
Cancel_NoCancel ==
    /\ sigpc = "set"
    /\ sigpc' = "done"
    /\ UNCHANGED <<pc, running, ctxDone, useThreads, passes, newItems, results, idx,
                   sent, stages, call, tested, ticker>>
    /\ UNCHANGED feedVars

\* handleSignals: cancel()
Cancel ==
    /\ sigpc = "set"
    /\ ctxDone' = TRUE
    /\ sigpc' = "done"
    /\ UNCHANGED <<pc, running, useThreads, passes, newItems, results, idx, sent,
                   stages, call, tested, ticker>>
    /\ UNCHANGED feedVars

\* ------------------------------------------------------------------------
\* Specifications
\* ------------------------------------------------------------------------

\* answers that stand for "the call worked" and "the call failed"
SlackOK == [kind |-> "http", status |-> 200, body |-> <<"o", "k">>]

SlackDown == [kind |-> "http", status |-> 500, body |-> <<"e">>]

DeepLOK == [kind |-> "ok", translations |-> << <<"j">> >>]

DeepLDown == [kind |-> "status", translations |-> <<>>]

OpenAIOK == [err |-> FALSE, choices |-> << <<"s">> >>]

OpenAIDown == [err |-> TRUE, choices |-> <<>>]

\* each provider either answers well or fails
DeepLAnswers == {DeepLOK, DeepLDown}

OpenAIAnswers == {OpenAIOK, OpenAIDown}

SlackAnswers == {SlackOK, SlackDown}

\* the feeds made of the entries that have no description
PlainFeeds == SeqsUpTo({e \in Entries : e.Description = <<>>}, MaxFeedLen)

\* The whole program from main on, in continuous mode, with a first run's
\* missing state file, a file system that works, a feed made of the entries
\* that have no description, and each provider either answering well or failing.
Init ==
    /\ pc = "test"
    /\ sigpc = "off"
    /\ passes = 0
    /\ useThreads \in BOOLEAN
    /\ results = <<>>
    /\ stateFile = NoFile
    /\ tested = NotTested
    /\ Fresh

Next ==
    \/ TestConnections(DeepLAnswers, OpenAIAnswers, SlackAnswers)
    \/ SendStartupNotification(SlackAnswers)
    \/ RunFirstPass
    \/ ParseFailed(SlackAnswers)
    \/ CheckForNewItems(PlainFeeds, {TRUE}, {"ok"})
    \/ ProcessItem(DeepLAnswers, OpenAIAnswers, SlackAnswers)
    \/ SendSingle(SlackAnswers)
    \/ SendBatch(SlackAnswers)
    \/ SendFallback(SlackAnswers)
    \/ Tick
    \/ TimerFires
    \/ RunCancelled
    \/ SignalReceived
    \/ SetRunningFalse
    \/ Cancel

Spec == Init /\ [][Next]_vars

\* The poller over several passes: any feed, any behaviour of the file system;
\* DeepL, OpenAI and the webhook answer well. The process is in Run, at its
\* first call of checkAndProcess.
InitFeed ==
    /\ pc = "check"
    /\ sigpc = "wait"
    /\ passes = 1
    /\ useThreads = TRUE
    /\ results = <<>>
    /\ stateFile \in SavedFiles
    /\ tested = AllPassed
    /\ Fresh

NextFeed ==
    \/ ParseFailed({SlackOK})
    \/ CheckForNewItems(Feeds, BOOLEAN, SaveOutcomes)
    \/ ProcessItem({DeepLOK}, {OpenAIOK}, {SlackOK})
    \/ SendSingle({SlackOK})
    \/ SendBatch({SlackOK})
    \/ Tick

SpecFeed == InitFeed /\ [][NextFeed]_vars

\* ------------------------------------------------------------------------
\* Claims about the poller (SpecFeed)
\* ------------------------------------------------------------------------

IDs(items) == {items[i].GUID : i \in DOMAIN items}

\* C1 as stated: a poll that gets the feed of the poll before it, with
\* loadState and saveState succeeding in both, returns no new item.
C1_SecondPollEmpty == again => newItems = <<>>

\* C1, amended: a poll that gets the feed of the poll before it, with loadState
\* and saveState succeeding in both, returns no new item, provided saveState
\* of the first poll found at most the retention limit of identifiers in the
\* seen-set and so dropped none.
C1_SecondPollEmptyUncapped == (again /\ prevFit) => newItems = <<>>

\* a second poll of a non-empty feed that was polled just before
C1_Witness ==
    /\ again
    /\ prevFit
    /\ passes = 2
    /\ Len(feed.Items) > 0
    /\ newItems = <<>>

\* C2 as stated: no poll returns as new an identifier that an earlier poll has
\* returned as new.
C2_NeverReturnedAgain ==
    [][pc = "check" => IDs(newItems') \cap returned = {}]_vars

\* C2, amended: no poll returns as new an identifier that an earlier poll has
\* returned as new and that is still in the seen-set when the poll starts; an
\* identifier the retention cap has dropped can be returned again.
C2_NeverReturnedWhileSeen ==
    [][pc = "check" => IDs(newItems') \cap (returned \cap lastChecked) = {}]_vars

\* a later poll whose feed carries an identifier returned before, which it skips
C2_Witness ==
    /\ passes = 2
    /\ pc # "check"
    /\ feed.status = "ok"
    /\ \E i \in DOMAIN feed.Items :
          /\ ItemID(feed.Items[i]) \in returned \cap lastChecked
          /\ ItemID(feed.Items[i]) \notin IDs(newItems)

\* the identifiers written in the state file
FileIDs == Range(TrimmedNonEmpty(Split(stateFile.data, NL)))

\* C3: when saveState finds more than the retention limit of identifiers in the
\* seen-set (and succeeds), the seen-set and the state file afterwards hold
\* exactly the limit, and they are the most recently inserted ones.
C3_MostRecentKept ==
    (ioOK /\ Len(atSave) > RetentionLimit) =>
        /\ Cardinality(lastChecked) = RetentionLimit
        /\ lastChecked = Range(LastN(atSave, RetentionLimit))
        /\ FileIDs = lastChecked

\* ------------------------------------------------------------------------
\* The pipeline stage runner (SpecPipeline) and its claims
\* ------------------------------------------------------------------------

\* The first pass of a process that finds no state file, up to the call of
\* sendNotifications: any feed, a file system that works, any answer of DeepL
\* and OpenAI to each call.
InitPipeline ==
    /\ pc = "check"
    /\ sigpc = "wait"
    /\ passes = 1
    /\ useThreads = TRUE
    /\ results = <<>>
    /\ stateFile = NoFile
    /\ tested = AllPassed
    /\ Fresh

NextPipeline ==
    \/ CheckForNewItems(Feeds, {TRUE}, {"ok"})
    \/ ProcessItem(DeepLResponses, OpenAIResponses, SlackResponses)

SpecPipeline == InitPipeline /\ [][NextPipeline]_vars

\* the loop of checkAndProcess has handled at least one item: the last one
\* handled is newItems[idx - 1], and the last result is its result
Processed == pc \in {"process", "notify"} /\ idx > 1 /\ Len(results) > 0

LastItem == newItems[idx - 1]

LastResult == results[Len(results)]

\* C4: if the title translation returned an error the translated title is the
\* item's title, and if the description translation returned an error the
\* translated description is the item's description, each whatever the other
\* translation did.
C4_TranslationFallback ==
    Processed =>
        /\ stages.title.err => LastResult.TranslatedTitle = LastItem.Title
        /\ stages.description.err =>
              LastResult.TranslatedDescription = LastItem.Description

\* the title translation failed and the description was translated
C4_Witness ==
    /\ Processed
    /\ stages.title.err
    /\ LastResult.TranslatedTitle = LastItem.Title
    /\ ~stages.description.err
    /\ LastResult.TranslatedDescription # LastItem.Description

\* C5: whatever the three calls return, TranslateAndSummarize returns a result
\* and no error: while the loop runs and when it is over there is one result
\* per item handled, in the order of the items, and no error notification.
C5_OneResultPerItem ==
    pc \in {"process", "notify"} =>
        /\ Len(results) = idx - 1
        /\ \A i \in 1..Len(results) :
              /\ results[i].OriginalTitle = newItems[i].Title
              /\ results[i].Link = newItems[i].Link
        /\ sent = <<>>
        /\ pc = "notify" => Len(results) = Len(newItems)

\* two new items, all three calls failed for the second one
C5_Witness ==
    /\ pc = "notify"
    /\ Len(newItems) = 2
    /\ Len(results) = 2
    /\ newItems[1].Link # newItems[2].Link
    /\ stages.title.err /\ stages.description.err /\ stages.summary.err

\* what a translation stage left in the result: the text of the item when the
\* call returned an error, else the text the call returned
Kept(stage, original) == IF stage.err THEN original ELSE stage.text

\* C6: if the summary generation returned an error (an error of the provider
\* or no choice in its answer) the summary is the placeholder, and the
\* translated title and description are the ones the two translation stages
\* produced.
C6_SummaryFallback ==
    (Processed /\ stages.summary.err) =>
        /\ LastResult.Summary = SummaryFailed
        /\ LastResult.TranslatedTitle = Kept(stages.title, LastItem.Title)
        /\ LastResult.TranslatedDescription =
              Kept(stages.description, LastItem.Description)

\* the summary failed after a title was translated
C6_Witness ==
    /\ Processed
    /\ stages.summary.err
    /\ ~stages.title.err
    /\ LastResult.TranslatedTitle # LastItem.Title
    /\ LastResult.Summary = SummaryFailed

\* ------------------------------------------------------------------------
\* generateSummaryWithOpenAI on its own (SpecSummary) and its claim
\* ------------------------------------------------------------------------

\* the completions: every text of letters, blanks and newlines
Completions == SeqsUpTo({"s", " ", "\n"}, MaxSummaryLen)

\* generateSummaryWithOpenAI is about to be called; the provider will answer with
\* one choice whose content is call.arg
InitSummary ==
    /\ pc = "call"
    /\ \E c \in Completions :
          call = [fn |-> "generateSummaryWithOpenAI", arg |-> c, val |-> <<>>]
    /\ sigpc = "off"
    /\ passes = 0
    /\ useThreads = TRUE
    /\ results = <<>>
    /\ stateFile = NoFile
    /\ running = TRUE
    /\ ctxDone = FALSE
    /\ lastChecked = {}
    /\ feed = NoFeed
    /\ newItems = <<>>
    /\ idx = 0
    /\ sent = <<>>
    /\ inserted = <<>>
    /\ atSave = <<>>
    /\ ioOK = FALSE
    /\ again = FALSE
    /\ prevFit = FALSE
    /\ returned = {}
    /\ failed = {}
    /\ stages = NoStages
    /\ tested = NotTested
    /\ ticker = "none"

\* the call of generateSummaryWithOpenAI and its return
SummaryCall ==
    /\ pc = "call"
    /\ call.fn = "generateSummaryWithOpenAI"
    /\ call' = [call EXCEPT !.val =
                  generateSummaryWithOpenAI(<<>>, <<>>,
                      [err |-> FALSE, choices |-> <<call.arg>>]).text]
    /\ pc' = "return"
    /\ UNCHANGED <<useThreads, passes, newItems, results, idx, sent, stages, tested, ticker>>
    /\ UNCHANGED feedVars
    /\ UNCHANGED sigVars

SpecSummary == InitSummary /\ [][SummaryCall]_vars

\* the number of newlines in a text
RECURSIVE Newlines(_)
Newlines(t) ==
    IF Len(t) = 0 THEN 0 ELSE (IF t[1] = "\n" THEN 1 ELSE 0) + Newlines(Tail(t))

\* C7: the summary returned is the completion without the white space around it
\* when that has at most 3 lines (at most 2 newlines); when it has more, it is
\* the part of it before its third newline, which is its first 3 lines.
C7_SummaryTruncation ==
    pc = "return" =>
        LET t == TrimSpace(call.arg)
        IN  IF Newlines(t) <= 2 THEN call.val = t
            ELSE \E k \in 1..Len(t) :
                    /\ t[k] = "\n"
                    /\ Newlines(Upto(t, k - 1)) = 2
                    /\ call.val = Upto(t, k - 1)

\* a completion of 5 lines cut to its first 3
C7_Witness ==
    /\ pc = "return"
    /\ Newlines(TrimSpace(call.arg)) = 4
    /\ Newlines(call.val) = 2
    /\ Len(call.val) < Len(TrimSpace(call.arg))

\* ------------------------------------------------------------------------
\* sendNotifications (SpecNotify) and its claims
\* ------------------------------------------------------------------------

\* the i-th entry of a feed of distinct articles
Article(i) ==
    [GUID |-> <<"g">> \o Itoa(i), Link |-> <<"l">> \o Itoa(i),
     Title |-> <<"t">> \o Itoa(i), Description |-> <<"d">> \o Itoa(i)]

\* checkAndProcess is about to call sendNotifications, in the first pass of a
\* process that found no state file and a feed of n articles, which DeepL and
\* OpenAI have handled well.
InitNotify ==
    /\ pc = "notify"
    /\ sigpc = "wait"
    /\ passes = 1
    /\ useThreads \in BOOLEAN
    /\ running = TRUE
    /\ ctxDone = FALSE
    /\ \E n \in 1..MaxResults :
          LET items   == [i \in 1..n |-> Article(i)]
              checked == CheckItems(items, <<>>, <<>>)
              saved   == saveState(checked.m, NoFile, "ok")
              outs    == [i \in 1..n |->
                            TranslateAndSummarize(checked.newItems[i], DeepLOK, DeepLOK,
                                                  OpenAIOK)]
          IN  /\ feed = Parsed(items)
              /\ lastChecked = saved.kept
              /\ stateFile = saved.file
              /\ inserted = Restrict(checked.m, saved.kept)
              /\ atSave = checked.m
              /\ newItems = checked.newItems
              /\ returned = IDs(checked.newItems)
              /\ failed = {}
              /\ results = [i \in 1..n |-> outs[i].result]
              /\ stages = outs[n].calls
              /\ idx = n + 1
    /\ ioOK = TRUE
    /\ again = FALSE
    /\ prevFit = TRUE
    /\ sent = <<>>
    /\ call = NoCall
    /\ tested = AllPassed
    /\ ticker = "none"

\* the webhook may accept a message, answer 500, or answer 200 with another body
NotifyResponses ==
    {SlackOK, SlackDown, [kind |-> "http", status |-> 200, body |-> <<"n", "o">>]}

NextNotify ==
    \/ SendSingle(NotifyResponses)
    \/ SendBatch(NotifyResponses)
    \/ SendFallback(NotifyResponses)

SpecNotify == InitNotify /\ [][NextNotify]_vars

\* the places in the record of the pass of the sends of messages of this kind
SendsOf(kind) == {k \in DOMAIN sent : sent[k].op = "send" /\ sent[k].msg.kind = kind}

\* sendNotifications has returned
Notified == pc = "select" /\ Len(results) > 0

\* the threaded send made for the only result failed, at the title message or
\* at the reply
ThreadedFailed ==
    \E k \in SendsOf("title") \cup SendsOf("summary") : ~sent[k].ok

\* C8: with one result and thread mode on, the threaded send is made; if it
\* failed, at the title message or at the reply, exactly one flat send follows
\* it, for the same article; if it succeeded there is no flat send.
C8_ThreadedToFlat ==
    (Notified /\ Len(results) = 1 /\ useThreads) =>
        /\ Cardinality(SendsOf("title")) = 1
        /\ sent[1].msg = buildTitleMessage(results[1])
        /\ Cardinality(SendsOf("article")) = IF ThreadedFailed THEN 1 ELSE 0
        /\ \A k \in SendsOf("article") :
              /\ k = Len(sent)
              /\ sent[k].msg.Attachments[1].TitleLink = results[1].Link
              /\ sent[k].msg.Attachments[1].Title = results[1].TranslatedTitle

\* the reply in the thread failed and the flat send that followed succeeded
C8_Witness ==
    /\ Notified /\ Len(results) = 1 /\ useThreads
    /\ Len(sent) = 3
    /\ sent[1].msg.kind = "title" /\ sent[1].ok
    /\ sent[2].msg.kind = "summary" /\ ~sent[2].ok
    /\ sent[3].msg.kind = "article" /\ sent[3].ok

Min(a, b) == IF a < b THEN a ELSE b

\* C9: the batch message for n >= 1 results has the header attachment and then
\* min(n, 5) article attachments, those of the first min(n, 5) results in
\* their order; it is the message sendNotifications hands to the webhook.
C9_BatchCap ==
    Len(results) > 0 =>
        LET atts  == buildBatchMessage(results).Attachments
            shown == Min(Len(results), 5)
        IN  /\ Len(atts) = 1 + shown
            /\ atts[1].Title = <<"#">> \o Itoa(Len(results))
            /\ atts[1].TitleLink = <<>>
            /\ \A i \in 1..shown :
                  /\ atts[i + 1].TitleLink = results[i].Link
                  /\ atts[i + 1].Title = results[i].TranslatedTitle
                  /\ atts[i + 1].Fields[1].Value = results[i].OriginalTitle
            /\ \A k \in SendsOf("batch") : sent[k].msg.Attachments = atts

\* a batch message sent for 6 results: the header and 5 articles
C9_Witness ==
    /\ Notified
    /\ Len(results) = 6
    /\ sent[1].msg.kind = "batch" /\ sent[1].ok
    /\ Len(sent[1].msg.Attachments) = 6

\* the first message of the individual send of an article
IsFirstAttempt(e) ==
    e.op = "send" /\ e.msg.kind = (IF useThreads THEN "title" ELSE "article")

\* the batch send of this pass failed
BatchFailed == \E k \in SendsOf("batch") : ~sent[k].ok

\* C10: with n >= 2 results, after a failed batch send the individual send
\* (threaded when SlackUseThreads is set, else flat) is attempted once for each
\* of the n results, in their order, whatever the sends before it did.
C10_BatchToIndividual ==
    (Notified /\ Len(results) >= 2 /\ BatchFailed) =>
        LET attempts == SelectSeq(sent, IsFirstAttempt)
        IN  /\ Len(attempts) = Len(results)
            /\ \A i \in 1..Len(attempts) :
                  /\ attempts[i].article = i
                  /\ attempts[i].msg.Attachments[1].TitleLink = results[i].Link

\* 6 results, the batch send failed, every send for the second article failed,
\* and the sixth article was sent
C10_Witness ==
    /\ Notified /\ Len(results) = 6 /\ BatchFailed
    /\ \A k \in DOMAIN sent : sent[k].article = 2 => ~sent[k].ok
    /\ \E k \in DOMAIN sent : sent[k].article = 6 /\ sent[k].ok

\* ------------------------------------------------------------------------
\* Claims about the whole program (Spec)
\* ------------------------------------------------------------------------

\* the places in the record of the pass of the sends of this kind made for
\* the article-th result
SendsFor(kind, article) == {k \in SendsOf(kind) : sent[k].article = article}

\* the kinds of message of the individual sends
ArticleKinds == {"title", "summary", "article"}

\* the last tier of the ladder, the flat send, failed for some article
FinalTierFailed == \E k \in SendsOf("article") : ~sent[k].ok

\* C11: in the record of a pass there is at most one batch send and, for each
\* article, at most one title message, one reply and one flat send; a failed
\* send never ends the process: once sendNotifications has returned after a
\* failed flat send the main goroutine is at the select of Run or in the pass
\* the next tick started, and it leaves Run only when the context is cancelled.
C11_NoRetry ==
    /\ Cardinality(SendsOf("batch")) <= 1
    /\ \A k \in DOMAIN sent : \A kind \in ArticleKinds :
          Cardinality(SendsFor(kind, sent[k].article)) <= 1
    /\ passes >= 1 => pc # "fatal"
    /\ pc = "exit" => ctxDone
    /\ (FinalTierFailed /\ pc \notin {"notify", "fallback"}) =>
          pc \in {"select", "check", "exit"}

\* batch, threaded and flat send all failed in the first pass, and the next
\* tick has started the second pass
C11_Witness ==
    /\ pc = "check"
    /\ passes = 2
    /\ useThreads
    /\ Len(results) = 2
    /\ BatchFailed
    /\ \A i \in 1..2 : \E k \in SendsFor("article", i) : ~sent[k].ok

\* C12: the startup notification is sent and a pass is started only after the
\* three connection tests have returned nil; when a test has returned an error
\* (TestConnections returns it) the process is ended by log.Fatalf, and it has
\* sent no startup notification and started no pass.
C12_StartupGate ==
    /\ (passes >= 1 \/ SendsOf("startup") # {} \/ pc \notin {"test", "fatal"}) =>
          tested = AllPassed
    /\ (pc # "test" /\ tested # AllPassed) =>
          /\ pc = "fatal"
          /\ passes = 0
          /\ SendsOf("startup") = {}
          /\ sigpc = "off"

\* the webhook answered 500 to the test message after DeepL and OpenAI had
\* passed their tests: the process has ended
C12_Witness ==
    /\ pc = "fatal"
    /\ tested = [deepl |-> "ok", openai |-> "ok", slack |-> "err"]
    /\ sent = <<Sent(testMessage, FALSE, 0)>>
    /\ passes = 0

\* handleSignals has done setRunning(false) and cancel()
HandlerDone == sigpc = "done" /\ ~running /\ ctxDone

\* the main goroutine is in a pass: in checkAndProcess or in sendNotifications
InPass == pc \in {"check", "process", "notify", "fallback"}

\* C13: once handleSignals has cleared the flag and cancelled the context, the
\* loop of Run, at its select, starts no pass, whether it takes the tick (the
\* flag is read as false) or ctx.Done() (Run returns); and a pass in flight
\* then goes on with its own steps up to the select: Run returns from the
\* select only.
C13_Cancellation ==
    [][/\ (HandlerDone /\ pc = "select") =>
              /\ pc' \in {"select", "exit"}
              /\ passes' = passes
       /\ (HandlerDone /\ InPass) => (InPass' \/ pc' = "select")
       /\ pc' = "exit" => (pc \in {"select", "exit"} /\ ctxDone)]_vars

\* Run has returned after the cancellation with a tick left to take: the only
\* pass made is the first one, which ran to its end
C13_Witness ==
    /\ pc = "exit"
    /\ HandlerDone
    /\ passes = 1
    /\ passes < MaxPasses
    /\ Len(results) > 0
    /\ Len(sent) > 0

\* the places in the record of the pass of the pacing delays
Sleeps == {k \in DOMAIN sent : sent[k].op = "sleep"}

\* the last pass has done all its work: the feed failed and the error
\* notification was attempted, or there was no new item, or every new item
\* was handled and sendNotifications made its sends, with one pacing delay
\* per result after a failed batch send
PassComplete ==
    \/ feed.status = "error" /\ Cardinality(SendsOf("error")) = 1
    \/ feed.status = "ok" /\ newItems = <<>>
    \/ /\ feed.status = "ok"
       /\ Len(newItems) > 0
       /\ Len(results) = Len(newItems)
       /\ IF Len(results) = 1
          THEN SendsOf("title") \cup SendsOf("article") # {}
          ELSE /\ Cardinality(SendsOf("batch")) = 1
               /\ BatchFailed => Cardinality(Sleeps) = Len(results)

\* C14: the main goroutine is in at most one pass: a pass starts only from
\* the call Run makes before its loop or from the select of the loop, one pass
\* at a time, and the select is reached only when the pass before it has done
\* all its work, sends and pacing delays included; a tick that fires during a
\* pass waits in ticker.C and starts nothing until then.
C14_NoOverlap ==
    [][/\ passes' # passes =>
              /\ passes' = passes + 1
              /\ pc \in {"run", "select"}
              /\ pc' = "check"
              /\ passes >= 1 => PassComplete
       /\ (InPass /\ ticker' # ticker) => (ticker' = "pending" /\ pc' = pc)]_vars

\* a tick has fired during the individual sends of the second pass and waits
C14_Witness ==
    /\ passes = 2
    /\ pc = "fallback"
    /\ idx = 2
    /\ ticker = "pending"
    /\ Cardinality(Sleeps) = 1

\* ------------------------------------------------------------------------
\* The recency poller (src/unnamed/part_003, first file), on its own
\* ------------------------------------------------------------------------

\* Time is counted in hours. A *time.Time is <<>> when nil, else <<t>>.
Day == 24

\* time.Now() when CheckForRecentItems is called
StartTime == Day + Day

\* most items a feed carries when the recency poller is applied on its own
MaxRecentLen == 2

\* a gofeed item that is not nil
RecentEntry(guid, link, published, updated) ==
    [nil |-> FALSE, GUID |-> guid, Link |-> link, Title |-> <<"t">> \o link,
     Description |-> <<>>, PublishedParsed |-> published, UpdatedParsed |-> updated]

\* a nil element of feed.Items
NilItem ==
    [nil |-> TRUE, GUID |-> <<>>, Link |-> <<>>, Title |-> <<>>, Description |-> <<>>,
     PublishedParsed |-> <<>>, UpdatedParsed |-> <<>>]

\* the items a feed may carry: published 23 hours ago; no GUID and no time at
\* all; published 25 hours ago and updated 23 hours ago; not published and
\* updated exactly 24 hours ago; nil
RecentEntries ==
    { RecentEntry(<<"a">>, <<"p">>, <<StartTime - 23>>, <<>>),
      RecentEntry(<<>>, <<"b">>, <<>>, <<>>),
      RecentEntry(<<"c">>, <<"q">>, <<StartTime - 25>>, <<StartTime - 23>>),
      RecentEntry(<<"d">>, <<"r">>, <<>>, <<StartTime - Day>>),
      NilItem }

\* fs.feedURLs
FeedURLs == << <<"u">>, <<"v">> >>

\* what ParseURL may return for one feed
Fetches == {FeedError} \cup {Parsed(s) : s \in SeqsUpTo(RecentEntries, MaxRecentLen)}

\* the loop of CheckForRecentItems over feed.Items that breaks one item late
\* (i > fs.maxArticlesPerFeed)
RECURSIVE RecentItems_BreakLate(_, _, _, _, _, _)
RecentItems_BreakLate(items, i, max, since, clock, feedURL) ==
    IF i > Len(items) \/ i - 1 > max THEN <<>>
    ELSE LET item == items[i]
             publishedTime == IF item.PublishedParsed # <<>> THEN item.PublishedParsed[1]
                              ELSE IF item.UpdatedParsed # <<>> THEN item.UpdatedParsed[1]
                              ELSE clock
             guid == IF item.GUID = <<>> THEN item.Link ELSE item.GUID
         IN  (IF ~item.nil /\ publishedTime > since
              THEN << [Title |-> cleanText(item.Title),
                       Description |-> cleanText(item.Description),
                       Link |-> item.Link,
                       Published |-> publishedTime,
                       GUID |-> guid,
                       FeedURL |-> feedURL] >>
              ELSE <<>>)
             \o RecentItems_BreakLate(items, i + 1, max, since, clock, feedURL)

\* the loop of CheckForRecentItems over feed.Items that takes the link for
\* identifier whenever there is one
RECURSIVE RecentItems_LinkFirst(_, _, _, _, _, _)
RecentItems_LinkFirst(items, i, max, since, clock, feedURL) ==
    IF i > Len(items) \/ i - 1 >= max THEN <<>>
    ELSE LET item == items[i]
             publishedTime == IF item.PublishedParsed # <<>> THEN item.PublishedParsed[1]
                              ELSE IF item.UpdatedParsed # <<>> THEN item.UpdatedParsed[1]
                              ELSE clock
             guid == IF item.Link = <<>> THEN item.GUID ELSE item.Link
         IN  (IF ~item.nil /\ publishedTime > since
              THEN << [Title |-> cleanText(item.Title),
                       Description |-> cleanText(item.Description),
                       Link |-> item.Link,
                       Published |-> publishedTime,
                       GUID |-> guid,
                       FeedURL |-> feedURL] >>
              ELSE <<>>)
             \o RecentItems_LinkFirst(items, i + 1, max, since, clock, feedURL)

\* the loop of CheckForRecentItems over feed.Items that takes the items
\* published at the start of the window too
RECURSIVE RecentItems_AtOrAfter(_, _, _, _, _, _)
RecentItems_AtOrAfter(items, i, max, since, clock, feedURL) ==
    IF i > Len(items) \/ i - 1 >= max THEN <<>>
    ELSE LET item == items[i]
             publishedTime == IF item.PublishedParsed # <<>> THEN item.PublishedParsed[1]
                              ELSE IF item.UpdatedParsed # <<>> THEN item.UpdatedParsed[1]
                              ELSE clock
             guid == IF item.GUID = <<>> THEN item.Link ELSE item.GUID
         IN  (IF ~item.nil /\ publishedTime >= since
              THEN << [Title |-> cleanText(item.Title),
                       Description |-> cleanText(item.Description),
                       Link |-> item.Link,
                       Published |-> publishedTime,
                       GUID |-> guid,
                       FeedURL |-> feedURL] >>
              ELSE <<>>)
             \o RecentItems_AtOrAfter(items, i + 1, max, since, clock, feedURL)

\* the loop of CheckForRecentItems over feed.Items, from the i-th item on (the
\* index of the source is i - 1): recentItems. clock is what time.Now() gives
\* for an item that has no time.
RECURSIVE RecentItems(_, _, _, _, _, _)
RecentItems(items, i, max, since, clock, feedURL) ==
    IF i > Len(items) \/ i - 1 >= max THEN <<>>
    ELSE LET item == items[i]
             publishedTime == IF item.PublishedParsed # <<>> THEN item.PublishedParsed[1]
                              ELSE IF item.UpdatedParsed # <<>> THEN item.UpdatedParsed[1]
                              ELSE clock
             guid == IF item.GUID = <<>> THEN item.Link ELSE item.GUID
         IN  (IF ~item.nil /\ publishedTime > since
              THEN << [Title |-> cleanText(item.Title),
                       Description |-> cleanText(item.Description),
                       Link |-> item.Link,
                       Published |-> publishedTime,
                       GUID |-> guid,
                       FeedURL |-> feedURL] >>
              ELSE <<>>)
             \o RecentItems(items, i + 1, max, since, clock, feedURL)

\* CheckForRecentItems that returns the error of the first feed that fails
RECURSIVE CheckForRecentItems_AbortOnError(_, _, _, _, _)
CheckForRecentItems_AbortOnError(feedURLs, fetched, max, now, clock) ==
    IF Len(feedURLs) = 0 THEN [items |-> <<>>, err |-> FALSE]
    ELSE LET since == now - Day
             parsed == fetched[1]
             rest  == CheckForRecentItems_AbortOnError(Tail(feedURLs), Tail(fetched), max,
                                                       now, clock)
         IN  IF parsed.status = "error" THEN [items |-> <<>>, err |-> TRUE]
             ELSE [items |-> RecentItems(parsed.Items, 1, max, since, clock, feedURLs[1])
                                \o rest.items,
                   err |-> rest.err]

\* CheckForRecentItems for the feeds feedURLs, to which ParseURL answers
\* fetched: allRecentItems and the error returned. now is time.Now() at the
\* call, clock a later reading.
RECURSIVE CheckForRecentItems(_, _, _, _, _)
CheckForRecentItems(feedURLs, fetched, max, now, clock) ==
    IF Len(feedURLs) = 0 THEN [items |-> <<>>, err |-> FALSE]
    ELSE LET since == now - Day
             parsed == fetched[1]
             recentItems == IF parsed.status = "error" THEN <<>>
                            ELSE RecentItems(parsed.Items, 1, max, since, clock,
                                             feedURLs[1])
             rest  == CheckForRecentItems(Tail(feedURLs), Tail(fetched), max, now, clock)
         IN  [items |-> recentItems \o rest.items, err |-> FALSE]

\* the state of the variables of the application while a function is applied
\* on its own
Idle ==
    /\ sigpc = "off"
    /\ passes = 0
    /\ useThreads = TRUE
    /\ results = <<>>
    /\ stateFile = NoFile
    /\ tested = NotTested
    /\ running = TRUE
    /\ ctxDone = FALSE
    /\ lastChecked = {}
    /\ feed = NoFeed
    /\ newItems = <<>>
    /\ idx = 0
    /\ sent = <<>>
    /\ inserted = <<>>
    /\ atSave = <<>>
    /\ ioOK = FALSE
    /\ again = FALSE
    /\ prevFit = FALSE
    /\ returned = {}
    /\ failed = {}
    /\ stages = NoStages
    /\ ticker = "none"

\* the clock readings after the call: in the same hour or in the next one
Clocks == {StartTime, StartTime + 1}

\* CheckForRecentItems is about to be called: ParseURL will answer
\* call.arg.fetched for the feeds of FeedURLs, maxArticlesPerFeed is
\* call.arg.max
InitRecent ==
    /\ pc = "call"
    /\ \E f \in [DOMAIN FeedURLs -> Fetches], m \in 1..MaxRecentLen, c \in Clocks :
          call = [fn |-> "CheckForRecentItems",
                  arg |-> [fetched |-> f, max |-> m, clock |-> c],
                  val |-> [items |-> <<>>, err |-> FALSE]]
    /\ Idle

\* the call of CheckForRecentItems and its return
RecentCall ==
    /\ pc = "call"
    /\ call.fn = "CheckForRecentItems"
    /\ call' = [call EXCEPT !.val =
                  CheckForRecentItems(FeedURLs, call.arg.fetched, call.arg.max,
                                      StartTime, call.arg.clock)]
    /\ pc' = "return"
    /\ UNCHANGED <<useThreads, passes, newItems, results, idx, sent, stages, tested,
                   ticker>>
    /\ UNCHANGED feedVars
    /\ UNCHANGED sigVars

SpecRecent == InitRecent /\ [][RecentCall]_vars

\* the items returned for the j-th feed
ReturnedOf(j) == SelectSeq(call.val.items, LAMBDA it : it.FeedURL = FeedURLs[j])

\* the items of the j-th feed that the loop examines: the first max ones
Examined(j) ==
    LET items == call.arg.fetched[j].Items
    IN  IF Len(items) > call.arg.max THEN SubSeq(items, 1, call.arg.max) ELSE items

\* the time of an entry: its published time, else its updated time, else the
\* time of the clock
Resolved(e) ==
    IF e.PublishedParsed # <<>> THEN e.PublishedParsed[1]
    ELSE IF e.UpdatedParsed # <<>> THEN e.UpdatedParsed[1]
    ELSE call.arg.clock

InWindow(e) == ~e.nil /\ Resolved(e) > StartTime - Day

\* C15: for every feed that was fetched, the items returned for it are, in
\* order, the examined entries whose resolved time is strictly later than
\* 24 hours before the call, each with that time; so an entry published 23
\* hours ago is returned, one published 25 hours ago is not, and one with no
\* time at all is.
C15_RecencyWindow ==
    pc = "return" =>
        \A j \in DOMAIN FeedURLs :
            call.arg.fetched[j].status = "ok" =>
                LET kept == SelectSeq(Examined(j), InWindow)
                    got  == ReturnedOf(j)
                IN  /\ Len(got) = Len(kept)
                    /\ \A i \in 1..Len(got) :
                          /\ got[i].Link = kept[i].Link
                          /\ got[i].Published = Resolved(kept[i])
                    /\ \A i \in 1..Len(Examined(j)) :
                          LET e == Examined(j)[i]
                          IN  /\ (e.PublishedParsed = <<StartTime - 23>>) =>
                                    \E k \in 1..Len(got) : got[k].Link = e.Link
                              /\ (e.PublishedParsed = <<StartTime - 25>>) =>
                                    \A k \in 1..Len(got) : got[k].Link # e.Link
                              /\ (~e.nil /\ e.PublishedParsed = <<>>
                                    /\ e.UpdatedParsed = <<>>) =>
                                    \E k \in 1..Len(got) : got[k].Link = e.Link

\* the first feed carried an entry published 25 hours ago and then one with no
\* time: only the second one is returned, with the time of the clock
C15_Witness ==
    /\ pc = "return"
    /\ call.arg.max = 2
    /\ call.arg.fetched[1].status = "ok"
    /\ Len(call.arg.fetched[1].Items) = 2
    /\ call.arg.fetched[1].Items[1].PublishedParsed = <<StartTime - 25>>
    /\ call.arg.fetched[1].Items[2].Link = <<"b">>
    /\ Len(ReturnedOf(1)) = 1
    /\ ReturnedOf(1)[1].GUID = <<"b">>
    /\ ReturnedOf(1)[1].Published = call.arg.clock

\* what the j-th feed contributes: nothing when its fetch failed, else its
\* examined entries that are in the window, each with the URL of the feed
SelectedOf(j) ==
    IF call.arg.fetched[j].status = "error" THEN <<>>
    ELSE LET kept == SelectSeq(Examined(j), InWindow)
         IN  [i \in 1..Len(kept) |-> [Link |-> kept[i].Link, FeedURL |-> FeedURLs[j]]]

\* the contributions of the feeds from the j-th on, in the order of fs.feedURLs
RECURSIVE SelectedFrom(_)
SelectedFrom(j) ==
    IF j > Len(FeedURLs) THEN <<>> ELSE SelectedOf(j) \o SelectedFrom(j + 1)

\* C16: whichever feeds fail to be fetched, CheckForRecentItems returns a nil
\* error and the selected items of the feeds that were fetched, feed after
\* feed in the order of fs.feedURLs; no item comes from a feed that failed.
C16_FeedFailureIsolation ==
    pc = "return" =>
        LET got    == call.val.items
            expect == SelectedFrom(1)
        IN  /\ call.val.err = FALSE
            /\ Len(got) = Len(expect)
            /\ \A i \in 1..Len(got) :
                  /\ got[i].Link = expect[i].Link
                  /\ got[i].FeedURL = expect[i].FeedURL
            /\ \A j \in DOMAIN FeedURLs :
                  call.arg.fetched[j].status = "error" => ReturnedOf(j) = <<>>

\* the fetch of the first feed failed and the second feed gave two items
C16_Witness ==
    /\ pc = "return"
    /\ call.arg.fetched[1].status = "error"
    /\ call.arg.fetched[2].status = "ok"
    /\ Len(call.val.items) = 2
    /\ call.val.items[1].GUID = <<"b">>
    /\ call.val.items[2].GUID = <<"a">>
    /\ call.val.items[1].FeedURL = FeedURLs[2]
    /\ ~call.val.err

\* ------------------------------------------------------------------------
\* Both pollers, one poll each (SpecPollers)
\* ------------------------------------------------------------------------

\* Either CheckForRecentItems is about to be called on its own, or the process
\* of continuous mode is at its first call of checkAndProcess, with any state
\* file an earlier run may have left and a file system that works.
InitPollers ==
    \/ InitRecent
    \/ /\ pc = "check"
       /\ sigpc = "wait"
       /\ passes = 1
       /\ useThreads = TRUE
       /\ results = <<>>
       /\ stateFile \in SavedFiles
       /\ tested = AllPassed
       /\ Fresh

NextPollers ==
    \/ RecentCall
    \/ CheckForNewItems(Feeds, {TRUE}, {"ok"})

SpecPollers == InitPollers /\ [][NextPollers]_vars

\* the identifier the claim gives to a feed entry
Derived(e) == IF e.GUID # <<>> THEN e.GUID ELSE e.Link

\* every item of the list comes from an entry of the feed items that has its
\* link, and its identifier is the one of every such entry
DerivedFrom(list, entries) ==
    \A i \in DOMAIN list :
        /\ \E k \in DOMAIN entries : entries[k].Link = list[i].Link
        /\ \A k \in DOMAIN entries :
              entries[k].Link = list[i].Link => list[i].GUID = Derived(entries[k])

\* C17: in both pollers the identifier of every FeedItem returned is the GUID
\* of its feed entry when that is not empty, and the link of the entry when it
\* is.
C17_IdentifierDerivation ==
    /\ (pc = "return" /\ call.fn = "CheckForRecentItems") =>
          \A j \in DOMAIN FeedURLs :
              DerivedFrom(ReturnedOf(j), call.arg.fetched[j].Items)
    /\ (pc \in {"process", "select"} /\ feed.status = "ok") =>
          DerivedFrom(newItems, feed.Items)

\* CheckForNewItems has returned two new items: the entry without GUID, whose
\* identifier is its link, and an entry with a GUID, whose identifier is not
C17_Witness ==
    /\ pc = "process"
    /\ Len(newItems) = 2
    /\ feed.Items[1].GUID = <<>>
    /\ newItems[1].GUID = feed.Items[1].Link
    /\ feed.Items[2].GUID # <<>>
    /\ newItems[2].GUID = feed.Items[2].GUID
    /\ newItems[2].GUID # feed.Items[2].Link

\* ------------------------------------------------------------------------
\* cleanText, statement by statement (SpecClean)
\* ------------------------------------------------------------------------

MaxTokens == 5

\* what the texts are made of: the two brackets, a letter, a line break and
\* the three spellings of the break tag that cleanText replaces first
Tokens == {<<"<">>, <<">">>, <<"x">>, NL,
           <<"<", "b", "r", ">">>,
           <<"<", "b", "r", "/", ">">>,
           <<"<", "b", "r", " ", "/", ">">>}

RECURSIVE Flatten(_)
Flatten(parts) == IF Len(parts) = 0 THEN <<>> ELSE parts[1] \o Flatten(Tail(parts))

TokenLists == UNION {[1..n -> Tokens] : n \in 0..MaxTokens}

\* one evaluation of the loop of cleanText that stops after the first tag
StripStep_Once(text) ==
    IF Contains(text, <<"<">>) /\ Contains(text, <<">">>)
    THEN LET start == Index(text, <<"<">>)
             end   == Index(From(text, start), <<">">>)
         IN  IF end = -1 THEN [text |-> text, done |-> TRUE]
             ELSE [text |-> Upto(text, start) \o From(text, start + end + 1),
                   done |-> TRUE]
    ELSE [text |-> text, done |-> TRUE]

\* one evaluation of the loop of cleanText: its condition and, when that
\* holds, its body; done when the loop is left
StripStep(text) ==
    IF Contains(text, <<"<">>) /\ Contains(text, <<">">>)
    THEN LET start == Index(text, <<"<">>)
             end   == Index(From(text, start), <<">">>)
         IN  IF end = -1 THEN [text |-> text, done |-> TRUE]
             ELSE [text |-> Upto(text, start) \o From(text, start + end + 1),
                   done |-> FALSE]
    ELSE [text |-> text, done |-> TRUE]

\* no call of cleanText yet
InitClean ==
    /\ pc = "start"
    /\ call = [fn |-> "cleanText", arg |-> <<>>, val |-> <<>>, lines |-> <<>>]
    /\ Idle

CleanFrame ==
    /\ UNCHANGED <<useThreads, passes, newItems, results, idx, sent, stages, tested,
                   ticker>>
    /\ UNCHANGED feedVars
    /\ UNCHANGED sigVars

\* a caller passes a text to cleanText
CleanCall ==
    /\ pc = "start"
    /\ \E parts \in TokenLists :
          call' = [call EXCEPT !.arg = Flatten(parts), !.val = Flatten(parts)]
    /\ pc' = "call"
    /\ CleanFrame

\* text = strings.ReplaceAll(text, "<br>", "\n")
ReplaceBr ==
    /\ pc = "call"
    /\ call.fn = "cleanText"
    /\ call' = [call EXCEPT !.val = ReplaceAll(call.val, <<"<", "b", "r", ">">>, NL)]
    /\ pc' = "br/"
    /\ CleanFrame

\* text = strings.ReplaceAll(text, "<br/>", "\n")
ReplaceBrSlash ==
    /\ pc = "br/"
    /\ call' = [call EXCEPT !.val = ReplaceAll(call.val, <<"<", "b", "r", "/", ">">>, NL)]
    /\ pc' = "br /"
    /\ CleanFrame

\* text = strings.ReplaceAll(text, "<br />", "\n")
ReplaceBrSpaceSlash ==
    /\ pc = "br /"
    /\ call' = [call EXCEPT !.val =
                  ReplaceAll(call.val, <<"<", "b", "r", " ", "/", ">">>, NL)]
    /\ pc' = "loop"
    /\ CleanFrame

\* the loop, one evaluation at a time
CleanLoop ==
    /\ pc = "loop"
    /\ LET s == StripStep(call.val)
       IN  /\ call' = [call EXCEPT !.val = s.text]
           /\ pc' = IF s.done THEN "trim" ELSE "loop"
    /\ CleanFrame

\* text = strings.TrimSpace(text)
CleanTrim ==
    /\ pc = "trim"
    /\ call' = [call EXCEPT !.val = TrimSpace(call.val)]
    /\ pc' = "split"
    /\ CleanFrame

\* lines := strings.Split(text, "\n")
CleanSplit ==
    /\ pc = "split"
    /\ call' = [call EXCEPT !.lines = Split(call.val, NL)]
    /\ pc' = "lines"
    /\ CleanFrame

\* the loop over the lines, which collects cleanLines
CleanLines ==
    /\ pc = "lines"
    /\ call' = [call EXCEPT !.lines = TrimmedNonEmpty(call.lines)]
    /\ pc' = "join"
    /\ CleanFrame

\* return strings.Join(cleanLines, "\n")
CleanJoin ==
    /\ pc = "join"
    /\ call' = [call EXCEPT !.val = Join(call.lines, NL)]
    /\ pc' = "return"
    /\ CleanFrame

NextClean ==
    \/ CleanCall
    \/ ReplaceBr
    \/ ReplaceBrSlash
    \/ ReplaceBrSpaceSlash
    \/ CleanLoop
    \/ CleanTrim
    \/ CleanSplit
    \/ CleanLines
    \/ CleanJoin

\* cleanText runs on its own: once called, a statement that can execute does
SpecClean ==
    /\ InitClean
    /\ [][NextClean]_vars
    /\ WF_vars(ReplaceBr)
    /\ WF_vars(ReplaceBrSlash)
    /\ WF_vars(ReplaceBrSpaceSlash)
    /\ WF_vars(CleanLoop)
    /\ WF_vars(CleanTrim)
    /\ WF_vars(CleanSplit)
    /\ WF_vars(CleanLines)
    /\ WF_vars(CleanJoin)

\* the statements compute what the operator cleanText does
CleanAgrees == (pc = "return" /\ call.fn = "cleanText") => call.val = cleanText(call.arg)

\* a "<" that is followed later by a ">"
HasSpan(text) ==
    \E i \in DOMAIN text : \E j \in DOMAIN text : i < j /\ text[i] = "<" /\ text[j] = ">"

\* C18: every call of cleanText returns, whatever the text, its loop making
\* the text shorter at each turn, and what it returns holds no "<" that is
\* followed later by a ">".
C18_CleanTextTerminates ==
    /\ (pc = "call") ~> (pc = "return")
    /\ [](pc = "return" => ~HasSpan(call.val))
    /\ [][pc = "loop" /\ pc' = "loop" => Len(call'.val) < Len(call.val)]_vars

\* an unbalanced text around a break tag: the loop removed the tag that the
\* replacement of the break left, then met a "<" with no ">" after it and
\* broke off, and cleanText returned the two brackets that remain
C18_Witness ==
    /\ pc = "return"
    /\ call.fn = "cleanText"
    /\ call.arg = <<">", "<", "<", "b", "r", ">", ">", "<">>
    /\ call.val = <<">", "<">>

\* ------------------------------------------------------------------------
\* State I/O in the poller (SpecFeed)
\* ------------------------------------------------------------------------

\* a step in which CheckForNewItems got the feed and returned
PollReturns == pc = "check" /\ feed'.status = "ok"

\* the seen-set in memory when the loop over the items started: what was
\* there at saveState, less the identifiers the loop marked
BeforeLoop == SubSeq(atSave', 1, Len(atSave') - Len(newItems'))

\* C19: a missing state file is no error and leaves the seen-set as it is;
\* and whether or not loadState or saveState fails, CheckForNewItems returns
\* without error the new items of the feed, those whose identifier is not in
\* the seen-set in memory, which holds what it held before the call.
C19_StateIONonFatal ==
    [][PollReturns =>
          /\ pc' = (IF newItems' = <<>> THEN "select" ELSE "process")
          /\ sent' = <<>>
          /\ newItems' = CheckItems(feed'.Items, BeforeLoop, <<>>).newItems
          /\ Len(inserted) <= Len(BeforeLoop)
          /\ SubSeq(BeforeLoop, 1, Len(inserted)) = inserted
          /\ Range(BeforeLoop) \subseteq Range(inserted) \cup FileIDs
          /\ ~stateFile.exists => BeforeLoop = inserted
          /\ (~stateFile.exists /\ stateFile'.exists) => ioOK']_vars

\* the second poll of a process whose state file is still missing, for both
\* polls failed to save: it returns the one item it had not seen, and the item
\* of the first poll is in the seen-set
C19_Witness ==
    /\ pc = "process"
    /\ passes = 2
    /\ ~ioOK
    /\ ~stateFile.exists
    /\ Len(newItems) = 1
    /\ Len(atSave) = 2
    /\ newItems[1].GUID = atSave[2]
    /\ atSave[1] \in {ItemID(feed.Items[i]) : i \in DOMAIN feed.Items}

\* ------------------------------------------------------------------------
\* The results beyond the fifth (SpecNotify)
\* ------------------------------------------------------------------------

\* the batch send of this pass succeeded
BatchSucceeded == \E k \in SendsOf("batch") : sent[k].ok

\* the results the batch message has no room for
Overflow == {i \in DOMAIN results : i > 5}

\* the message carries the i-th result: an attachment links to the article
\* or bears its original title
Shows(msg, i) ==
    \E a \in DOMAIN msg.Attachments :
        LET att == msg.Attachments[a]
        IN  \/ att.TitleLink = results[i].Link
            \/ \E f \in DOMAIN att.Fields : att.Fields[f].Value = results[i].OriginalTitle

\* C20: when a pass has more than 5 results and its batch send succeeds, the
\* batch message is all the pass sends: it shows none of the results after the
\* fifth, and no individual send is made, for them or for any other result.
C20_BatchOverflow ==
    (Len(results) > 5 /\ BatchSucceeded) =>
        /\ pc = "select"
        /\ Len(sent) = 1
        /\ sent[1].msg.kind = "batch"
        /\ \A i \in 1..5 : Shows(sent[1].msg, i)
        /\ \A i \in Overflow : ~Shows(sent[1].msg, i)
        /\ \A k \in DOMAIN sent : sent[k].article \notin Overflow
        /\ SendsOf("title") \cup SendsOf("summary") \cup SendsOf("article") = {}

\* 6 results in flat mode and a batch send that went through: the pass is over
\* and the sixth result has reached the channel in no message
C20_Witness ==
    /\ pc = "select"
    /\ ~useThreads
    /\ Overflow = {6}
    /\ sent = <<Sent(buildBatchMessage(results), TRUE, 0)>>
    /\ ~Shows(sent[1].msg, 6)

\* ------------------------------------------------------------------------
\* truncateText on its own (SpecTruncate)
\* ------------------------------------------------------------------------

\* longest text given to truncateText
MaxTextLen == 7

\* largest limit given to truncateText
MaxTruncLen == 5

TruncTexts == SeqsUpTo({"a", " "}, MaxTextLen)

\* truncateText is about to be called on a text with a limit
InitTruncate ==
    /\ pc = "call"
    /\ \E t \in TruncTexts, m \in 0..MaxTruncLen :
          call = [fn |-> "truncateText", arg |-> [text |-> t, maxLen |-> m], val |-> <<>>]
    /\ Idle

\* the call of truncateText and its return
TruncateCall ==
    /\ pc = "call"
    /\ call.fn = "truncateText"
    /\ call' = [call EXCEPT !.val = truncateText(call.arg.text, call.arg.maxLen)]
    /\ pc' = "return"
    /\ UNCHANGED <<useThreads, passes, newItems, results, idx, sent, stages, tested,
                   ticker>>
    /\ UNCHANGED feedVars
    /\ UNCHANGED sigVars

SpecTruncate == InitTruncate /\ [][TruncateCall]_vars

\* the offsets, counted from 0, of the spaces within the first maxLen bytes
SpacesWithin(text, maxLen) == {i \in 0..(maxLen - 1) : text[i + 1] = " "}

\* the largest element of a non-empty set of numbers
Largest(S) == CHOOSE x \in S : \A y \in S : y <= x

\* C21: truncateText returns a text of at most maxLen bytes as it is; of a
\* longer one it returns a prefix followed by "...": the part before the last
\* space within the first maxLen bytes when that space lies beyond offset
\* maxLen/2, the first maxLen bytes otherwise; the result is never longer than
\* maxLen + 3.
C21_TruncateText ==
    (pc = "return" /\ call.fn = "truncateText") =>
        LET text   == call.arg.text
            maxLen == call.arg.maxLen
            spaces == SpacesWithin(text, maxLen)
        IN  /\ Len(call.val) <= maxLen + 3
            /\ IF Len(text) <= maxLen THEN call.val = text
               ELSE IF spaces # {} /\ 2 * Largest(spaces) > maxLen
               THEN call.val = SubSeq(text, 1, Largest(spaces)) \o <<".", ".", ".">>
               ELSE call.val = SubSeq(text, 1, maxLen) \o <<".", ".", ".">>

\* a text of 7 bytes cut to 5: the last space within the first 5 is at offset
\* 3, beyond 5/2, so the text is cut before it; the space at offset 1 is kept
C21_Witness ==
    /\ pc = "return"
    /\ call.fn = "truncateText"
    /\ call.arg = [text |-> <<"a", " ", "a", " ", "a", "a", " ">>, maxLen |-> 5]
    /\ call.val = <<"a", " ", "a", ".", ".", ".">>

\* ------------------------------------------------------------------------
\* Error notifications (Spec)
\* ------------------------------------------------------------------------

\* sendNotifications has returned in this pass, or was not called
AfterSends == pc \notin {"notify", "fallback"}

\* a failed send never ends the process: the main goroutine never reaches the
\* fatal exit once Run is entered, and leaves Run only on cancellation
LoopGoesOn == (passes >= 1 => pc # "fatal") /\ (pc = "exit" => ctxDone)

\* C22 as stated: a pass in which the feed check failed, or in which every
\* delivery tier failed for an article, has attempted an error notification;
\* a failed error notification does not stop the loop.
C22_PipelineFailureNotified ==
    /\ feed.status = "error" => SendsOf("error") # {}
    /\ (FinalTierFailed /\ AfterSends) => SendsOf("error") # {}
    /\ LoopGoesOn

\* C22, amended: a pass in which the feed check failed has attempted exactly
\* one error notification and nothing else; an error notification is sent in
\* no other pass, so a pass in which every delivery tier failed for an article
\* sends none; a failed error notification does not stop the loop.
C22_FeedFailureNotified ==
    /\ feed.status = "error" =>
          /\ Len(sent) = 1
          /\ sent[1].msg = errorMessage(FeedFailedText)
    /\ SendsOf("error") # {} => feed.status = "error"
    /\ FinalTierFailed => SendsOf("error") = {}
    /\ LoopGoesOn

\* the feed check of the first pass failed, the error notification failed
\* too, and the next tick has started the second pass
C22_Witness ==
    /\ pc = "check"
    /\ passes = 2
    /\ feed.status = "error"
    /\ sent = <<Sent(errorMessage(FeedFailedText), FALSE, 0)>>

\* ------------------------------------------------------------------------
\* A poll whose feed cannot be fetched (SpecFeed)
\* ------------------------------------------------------------------------

\* a step in which CheckForNewItems returned the error of ParseURL
PollFails == pc = "check" /\ feed'.status = "error"

\* C23: when ParseURL fails, CheckForNewItems returns the error and leaves the
\* seen-set in memory and the state file as they were; the pass ends there,
\* with no new item, no result, nothing translated and nothing sent but the
\* error notification; the next tick starts a pass, whose poll gives the new
\* items of its feed as any poll does.
C23_FeedFailureFrame ==
    [][/\ PollFails =>
             /\ lastChecked' = lastChecked
             /\ inserted' = inserted
             /\ stateFile' = stateFile
             /\ newItems' = <<>>
             /\ results' = <<>>
             /\ stages' = NoStages
             /\ \A k \in DOMAIN sent' : sent'[k].msg.kind = "error"
             /\ pc' = "select"
       /\ (feed.status = "error" /\ pc = "select" /\ pc' # pc) =>
             /\ pc' = "check"
             /\ passes' = passes + 1
             /\ UNCHANGED feedVars
       /\ (feed.status = "error" /\ PollReturns) =>
             /\ newItems' = CheckItems(feed'.Items, BeforeLoop, <<>>).newItems
             /\ SubSeq(BeforeLoop, 1, Len(inserted)) = inserted]_vars

\* the first pass marked and saved two identifiers; the poll of the second
\* pass failed: the seen-set and the file hold what the first pass left
C23_Witness ==
    /\ pc = "select"
    /\ passes = 2
    /\ feed.status = "error"
    /\ Cardinality(lastChecked) = 2
    /\ lastChecked = Range(inserted)
    /\ stateFile.exists
    /\ FileIDs = lastChecked
    /\ returned = lastChecked

\* ------------------------------------------------------------------------
\* The threaded send (SpecNotify)
\* ------------------------------------------------------------------------

\* C24: every reply comes right after the title message of the same article,
\* which was accepted, and its thread reference is the timestamp, not empty,
\* that the title send returned (the clock it read); after a title message
\* that failed comes no reply but, the threaded send having returned an
\* error, the flat send for the same article.
C24_ThreadedOrdering ==
    /\ \A k \in SendsOf("summary") :
          /\ k > 1
          /\ sent[k - 1].op = "send"
          /\ sent[k - 1].msg.kind = "title"
          /\ sent[k - 1].ok
          /\ sent[k - 1].article = sent[k].article
          /\ sent[k].msg.ThreadTS # <<>>
          /\ sent[k].msg.ThreadTS = sendToSlackWithResponse(SlackOK, k - 1).ts
    /\ \A k \in SendsOf("title") :
          /\ sent[k].msg.ThreadTS = <<>>
          /\ k < Len(sent)
          /\ sent[k + 1].op = "send"
          /\ sent[k + 1].article = sent[k].article
          /\ sent[k + 1].msg.kind = (IF sent[k].ok THEN "summary" ELSE "article")

\* after a failed batch send of two results in thread mode: the title message
\* of the first was refused and the flat send followed; the title message of
\* the second was accepted and the reply went into its thread
C24_Witness ==
    /\ Notified /\ Len(results) = 2 /\ useThreads /\ BatchFailed
    /\ Len(sent) = 7
    /\ sent[2].msg.kind = "title" /\ ~sent[2].ok /\ sent[3].msg.kind = "article"
    /\ sent[5].msg.kind = "title" /\ sent[5].ok
    /\ sent[6].msg.kind = "summary" /\ sent[6].ok /\ sent[6].msg.ThreadTS = <<"5">>

\* ------------------------------------------------------------------------
\* Pacing (Spec)
\* ------------------------------------------------------------------------

\* the loop of checkAndProcess is about to call TranslateAndSummarize for an
\* item that is not the first of the pass
NextItemDue == pc = "process" /\ idx > 1

\* between the calls for consecutive items the pass has made a pacing delay
ProcessingPaced == NextItemDue => Cardinality(Sleeps) >= idx - 1

\* between two sends made for different articles the pass has made a pacing
\* delay
SendsPaced ==
    \A j, k \in DOMAIN sent :
        (/\ j < k
         /\ sent[j].op = "send" /\ sent[k].op = "send"
         /\ sent[j].article >= 1 /\ sent[k].article >= 1
         /\ sent[j].article # sent[k].article)
        => \E s \in Sleeps : j < s /\ s < k

\* C25: within a pass a pacing delay separates the processing of consecutive
\* items and separates the notification sends of different articles, so that
\* no two calls to a provider for different articles are made back to back.
C25_Pacing == ProcessingPaced /\ SendsPaced

\* ------------------------------------------------------------------------
\* Shutdown (SpecShutdown)
\* ------------------------------------------------------------------------

\* The whole program under fair scheduling: the goroutine of handleSignals,
\* once it has received a signal, goes on to setRunning and cancel; the main
\* goroutine goes on with the step of the pass it is in (every call of a pass
\* returns), and at the select of Run takes ctx.Done() once it is ready.
\* Nothing is assumed about the signal arriving, nor about the ticker.
SpecShutdown ==
    /\ Init
    /\ [][Next]_vars
    /\ WF_vars(SetRunningFalse)
    /\ WF_vars(Cancel)
    /\ WF_vars(RunFirstPass)
    /\ WF_vars(ParseFailed(SlackAnswers) \/ CheckForNewItems(PlainFeeds, {TRUE}, {"ok"}))
    /\ WF_vars(ProcessItem(DeepLAnswers, OpenAIAnswers, SlackAnswers))
    /\ WF_vars(SendSingle(SlackAnswers))
    /\ WF_vars(SendBatch(SlackAnswers))
    /\ WF_vars(SendFallback(SlackAnswers))
    /\ WF_vars(RunCancelled)

\* C26: once handleSignals has received a signal, Run eventually returns,
\* whatever pass is in flight; and the context is cancelled only after the
\* flag was cleared.
C26_ShutdownLiveness ==
    /\ (sigpc = "got") ~> (pc = "exit")
    /\ [](ctxDone => ~running)
    /\ [][ctxDone' # ctxDone => (~running /\ sigpc = "set")]_vars

\* Run has returned after the signal, from the select of the last pass, where
\* a tick was waiting too
C26_Witness ==
    /\ pc = "exit"
    /\ sigpc = "done"
    /\ ~running
    /\ ctxDone
    /\ passes = MaxPasses
    /\ ticker = "pending"

\* ------------------------------------------------------------------------
\* The cap of the recency poller (SpecRecent)
\* ------------------------------------------------------------------------

\* the entries of the j-th feed that are in the window, in the order of the
\* feed, examined or not
AllInWindow(j) == SelectSeq(call.arg.fetched[j].Items, InWindow)

\* C27 as stated: for every feed that was fetched, at most maxArticlesPerFeed
\* items are returned, and an entry in the window is returned whenever fewer
\* than maxArticlesPerFeed entries of the feed were selected before it; that
\* is, the first maxArticlesPerFeed entries in the window are the ones
\* returned, wherever they stand in the feed.
C27_PerFeedCap ==
    (pc = "return" /\ call.fn = "CheckForRecentItems") =>
        \A j \in DOMAIN FeedURLs :
            call.arg.fetched[j].status = "ok" =>
                LET got == ReturnedOf(j)
                    all == AllInWindow(j)
                IN  /\ Len(got) <= call.arg.max
                    /\ \A n \in 1..Min(Len(all), call.arg.max) :
                          /\ n <= Len(got)
                          /\ got[n].Link = all[n].Link

\* C27, amended: for every feed that was fetched, at most maxArticlesPerFeed
\* items are returned, and an entry in the window is returned whenever it is
\* among the first maxArticlesPerFeed entries of the feed: the cap counts the
\* entries examined, nil and old ones included, not the entries selected.
C27_PerFeedCapExamined ==
    (pc = "return" /\ call.fn = "CheckForRecentItems") =>
        \A j \in DOMAIN FeedURLs :
            call.arg.fetched[j].status = "ok" =>
                LET got   == ReturnedOf(j)
                    items == call.arg.fetched[j].Items
                    first == SubSeq(items, 1, Min(Len(items), call.arg.max))
                    kept  == SelectSeq(first, InWindow)
                IN  /\ Len(got) <= call.arg.max
                    /\ \A n \in 1..Len(kept) :
                          /\ n <= Len(got)
                          /\ got[n].Link = kept[n].Link

\* with a cap of 1, the first feed carried an entry updated exactly 24 hours
\* ago and then one published 23 hours ago: nothing is returned for it; the
\* second feed carried two entries in the window, and its first one is
\* returned
C27_Witness ==
    /\ pc = "return"
    /\ call.fn = "CheckForRecentItems"
    /\ call.arg.max = 1
    /\ call.arg.fetched[1].status = "ok"
    /\ Len(call.arg.fetched[1].Items) = 2
    /\ call.arg.fetched[1].Items[1].GUID = <<"d">>
    /\ call.arg.fetched[1].Items[2].GUID = <<"a">>
    /\ call.arg.fetched[2].status = "ok"
    /\ Len(call.arg.fetched[2].Items) = 2
    /\ call.arg.fetched[2].Items[1].GUID = <<"a">>
    /\ call.arg.fetched[2].Items[2].GUID = <<"c">>
    /\ Len(call.val.items) = 1
    /\ call.val.items[1].GUID = <<"a">>
    /\ call.val.items[1].FeedURL = FeedURLs[2]

\* ------------------------------------------------------------------------
\* Marking and delivery (SpecMark)
\* ------------------------------------------------------------------------

\* what the file system does to saveState: it succeeds, or WriteFile fails
MarkSaves == {"ok", "write"}

\* The passes of continuous mode with any feed, any state file an earlier run
\* may have left, a state file that can be read, a saveState that succeeds or
\* not and a webhook that answers well or not; DeepL and OpenAI answer well.
NextMark ==
    \/ ParseFailed({SlackOK})
    \/ CheckForNewItems(Feeds, {TRUE}, MarkSaves)
    \/ ProcessItem({DeepLOK}, {OpenAIOK}, {SlackOK})
    \/ SendSingle(SlackAnswers)
    \/ SendBatch(SlackAnswers)
    \/ SendFallback(SlackAnswers)
    \/ Tick

SpecMark == InitFeed /\ [][NextMark]_vars

\* the items of the pass are being translated or notified
Delivering == pc \in {"process", "notify", "fallback"}

\* the identifiers about which the pass has sent a message
NotifiedIDs ==
    {newItems[sent[k].article].GUID :
        k \in {n \in DOMAIN sent : sent[n].op = "send" /\ sent[n].article > 0}}

Carrying(i) ==
    {k \in DOMAIN sent :
        /\ sent[k].op = "send"
        /\ sent[k].ok
        /\ sent[k].article = i
        /\ sent[k].msg.Attachments[1].Title = results[i].TranslatedTitle
        /\ sent[k].msg.Attachments[1].TitleLink = results[i].Link}

\* the replies that failed after their title message was accepted
FailedReplies ==
    {k \in SendsOf("summary") :
        /\ ~sent[k].ok
        /\ k > 1
        /\ sent[k - 1].op = "send"
        /\ sent[k - 1].msg.kind = "title"
        /\ sent[k - 1].ok
        /\ sent[k - 1].article = sent[k].article}

\* the flat send of the article follows the k-th event
FlatFollows(k) ==
    /\ k + 1 <= Len(sent)
    /\ sent[k + 1].op = "send"
    /\ sent[k + 1].article = sent[k].article
    /\ sent[k + 1].msg = buildArticleMessage(results[sent[k].article])

\* C29 as stated: after a title message that was accepted and a reply that
\* failed, the flat send of the article is issued, and the channel has got two
\* messages that carry the title of the article.
C29_DuplicateOnPartialFailure ==
    \A k \in FailedReplies :
        /\ FlatFollows(k)
        /\ Cardinality(Carrying(sent[k].article)) = 2

\* C29, amended: after a title message that was accepted and a reply that
\* failed, the flat send of the article is issued; if it is accepted the
\* channel has got two messages that carry the title of the article, the title
\* message and the flat one, and if it fails the channel keeps the title
\* message alone. Nothing but sends and sleeps is done: no message is
\* withdrawn.
C29_DuplicateWhenFlatAccepted ==
    /\ \A k \in FailedReplies :
          /\ FlatFollows(k)
          /\ k - 1 \in Carrying(sent[k].article)
          /\ Carrying(sent[k].article) =
                IF sent[k + 1].ok THEN {k - 1, k + 1} ELSE {k - 1}
    /\ \A k \in DOMAIN sent : sent[k].op \in {"send", "sleep"}

\* the batch send of three articles failed; for the second one the title
\* message was accepted, the reply failed and the flat send was accepted; for
\* the third one the three sends went the same way but the flat send failed
C29_Witness ==
    /\ Len(results) = 3
    /\ useThreads
    /\ pc = "select"
    /\ FailedReplies = {6, 10}
    /\ sent[5].ok /\ sent[5].msg.kind = "title" /\ sent[5].article = 2
    /\ sent[7].ok /\ sent[7].msg.kind = "article" /\ sent[7].article = 2
    /\ Carrying(2) = {5, 7}
    /\ ~sent[11].ok /\ sent[11].msg.kind = "article" /\ sent[11].article = 3
    /\ Carrying(3) = {9}

\* ------------------------------------------------------------------------
\* saveState and loadState on their own (SpecStateFile)
\* ------------------------------------------------------------------------

\* the identifiers a seen-set may hold: CheckForNewItems marks item.GUID, or
\* item.Link when the GUID is empty, as the parser gave them; an entry with
\* neither has the empty identifier, and the text of a guid element may run
\* over two lines
Identifiers == { <<>>, <<"a">>, <<"b">>, <<"a", "\n", "b">> }

\* the seen-sets: up to one identifier more than the retention limit
SeenSets == {S \in SUBSET Identifiers : Cardinality(S) <= RetentionLimit + 1}

\* saveState is about to be called with fs.lastChecked = call.arg.m and no
\* state file yet
InitStateFile ==
    /\ pc = "call"
    /\ \E S \in SeenSets :
          call = [fn |-> "saveState",
                  arg |-> [m |-> S],
                  val |-> [kept |-> S, file |-> NoFile, err |-> FALSE,
                           loaded |-> {}, readErr |-> FALSE]]
    /\ Idle

\* the call of saveState and its return: the range over the map visits the
\* keys in any order
SaveCall ==
    /\ pc = "call"
    /\ call.fn = "saveState"
    /\ \E guids \in Orders(call.arg.m), outcome \in SaveOutcomes :
          LET saved == saveState(guids, call.val.file, outcome)
          IN  call' = [call EXCEPT !.val.kept = saved.kept,
                                   !.val.file = saved.file,
                                   !.val.err = saved.err]
    /\ pc' = "saved"
    /\ UNCHANGED <<useThreads, passes, newItems, results, idx, sent, stages, tested,
                   ticker>>
    /\ UNCHANGED feedVars
    /\ UNCHANGED sigVars

\* the call of loadState by a FeedService whose fs.lastChecked is empty, as
\* NewFeedService makes it, and its return
LoadCall ==
    /\ pc = "saved"
    /\ call.fn = "saveState"
    /\ \E readOK \in BOOLEAN :
          LET loaded == loadState(<<>>, call.val.file, readOK)
          IN  call' = [call EXCEPT !.val.loaded = Range(loaded.m),
                                   !.val.readErr = loaded.err]
    /\ pc' = "return"
    /\ UNCHANGED <<useThreads, passes, newItems, results, idx, sent, stages, tested,
                   ticker>>
    /\ UNCHANGED feedVars
    /\ UNCHANGED sigVars

NextStateFile == SaveCall \/ LoadCall

SpecStateFile == InitStateFile /\ [][NextStateFile]_vars

\* C30: when saveState has succeeded on a seen-set of at most the retention
\* limit of identifiers and loadState then succeeds on an empty seen-set, the
\* seen-set it yields is the one that was saved; and after every saveState
\* that succeeded, the identifiers in the state file are those of the seen-set
\* in memory.
C30_StateRoundTrip ==
    /\ (pc = "return" /\ call.fn = "saveState" /\ ~call.val.err /\ ~call.val.readErr
          /\ Cardinality(call.arg.m) <= RetentionLimit) =>
            call.val.loaded = call.arg.m
    /\ (pc \in {"saved", "return"} /\ call.fn = "saveState" /\ ~call.val.err) =>
            Range(TrimmedNonEmpty(Split(call.val.file.data, NL))) = call.val.kept

====
